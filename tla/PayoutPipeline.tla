---------------------------- MODULE PayoutPipeline ----------------------------
(***************************************************************************)
(* The payout half of scavium-faucet: the claims table and the             *)
(* transactions table in SQLite, the queue worker that pays queued claims, *)
(* the watcher that follows the payments on chain and cleans up claims     *)
(* left in 'sending', the tail of the claim handler that enqueues, and the *)
(* admin retry and cancel commands.  They share nothing but the database   *)
(* and the chain, and interleave freely between any two SQL transactions   *)
(* or RPC calls.  A crash wipes everything that is not in SQLite or on     *)
(* chain.                                                                  *)
(*                                                                         *)
(* Each SQL transaction is one step: under SQLite's WAL journal a          *)
(* transaction that loses a race is refused with SQLITE_BUSY and never     *)
(* interleaves.  Timestamps are kept as the one bit the code derives from  *)
(* them: `waiting' is next_attempt_at > now, `aged' is                     *)
(* updated_at <= now - StuckTimeout.                                       *)
(***************************************************************************)
EXTENDS Integers, FiniteSets

CONSTANTS
    Claims,            \* claim ids, numbered in the order of created_at
    BatchSize,         \* worker.Config.BatchSize
    MaxRetries,        \* worker.Config.MaxRetries
    WatchLimit,        \* chain.WatcherConfig.BatchSize
    MinConfirmations,  \* chain.WatcherConfig.MinConfirmations
    MaxTx,             \* bound: different transactions signed for one claim
    MaxHeight,         \* bound: empty blocks are added below this height only
    MaxFaults,         \* bound: store errors, RPC errors and crashes
    MaxAdminRetries    \* bound: admin retries of one claim

ASSUME ClaimsAssumption == Claims \subseteq Nat
ASSUME LimitsAssumption ==
    /\ BatchSize \in Nat \ {0}
    /\ MaxRetries \in Nat \ {0}
    /\ WatchLimit \in Nat \ {0}
    /\ MinConfirmations \in Nat
ASSUME BoundsAssumption ==
    /\ MaxTx \in Nat
    /\ MaxHeight \in Nat
    /\ MaxFaults \in Nat
    /\ MaxAdminRetries \in Nat

VARIABLES
    \* the requests and transactions tables
    status, retryCount, waiting, aged, rows,
    \* claim handlers between the INSERT and the return
    intake,
    \* the worker: remaining batch, and the claim being settled
    wpc, batch, wclaim, wtx, wcount,
    \* the watcher: snapshot of pending transactions, block read, stuck claims
    vpc, listed, seenBlock, stuck,
    \* the network
    chain, minedAt, height,
    \* history: what was done so far, read by no action but the bounds
    attempts, broadcast, ambiguous, retries, faults

table   == <<status, retryCount, waiting, aged, rows>>
worker  == <<wpc, batch, wclaim, wtx, wcount>>
watcher == <<vpc, listed, seenBlock, stuck>>
network == <<chain, minedAt, height>>
history == <<attempts, broadcast, ambiguous, retries, faults>>
vars == <<table, intake, worker, watcher, network, history>>

-----------------------------------------------------------------------------

\* domain.ClaimStatus; "absent" is a claim that has no row yet.  No code path
\* of the service writes ClaimStatusValidated.
ClaimStatus ==
    {"absent", "received", "queued", "sending", "sent", "confirmed", "failed", "rejected"}

\* <<c, k>> is the k-th different transaction signed for claim c: its hash.
Tx == Claims \X (1 .. MaxTx)

\* A transaction hash on the network: never broadcast, in a mempool, dropped
\* from every mempool, or in a block with receipt status 1 or 0.
TxState == {"none", "pool", "dropped", "success", "reverted"}

\* transactions.status; "none" when the hash has no row.
RowStatus == {"none", "sent", "confirmed", "failed"}

Init ==
    /\ status = [c \in Claims |-> "absent"]
    /\ retryCount = [c \in Claims |-> 0]
    /\ waiting = [c \in Claims |-> FALSE]
    /\ aged = [c \in Claims |-> FALSE]
    /\ rows = [t \in Tx |-> "none"]
    /\ intake = [c \in Claims |-> "none"]
    /\ wpc = "idle" /\ batch = {} /\ wclaim = 0 /\ wtx = 0 /\ wcount = 0
    /\ vpc = "idle" /\ listed = {} /\ seenBlock = 0 /\ stuck = {}
    /\ chain = [t \in Tx |-> "none"]
    /\ minedAt = [t \in Tx |-> 0]
    /\ height = 0
    /\ attempts = [c \in Claims |-> 0]
    /\ broadcast = [c \in Claims |-> 0]
    /\ ambiguous = [c \in Claims |-> 0]
    /\ retries = [c \in Claims |-> 0]
    /\ faults = 0

\* An error of the store or of the RPC node, or a crash, within the bound.
Fault == faults < MaxFaults /\ faults' = faults + 1

\* Every UPDATE of requests.status also sets updated_at to now.
SetStatus(c, s) ==
    /\ status' = [status EXCEPT ![c] = s]
    /\ aged' = [aged EXCEPT ![c] = FALSE]

-----------------------------------------------------------------------------
\* The claim handler from the INSERT on.

\* The handler inserts the claim with status received.
CreateClaim(c) ==
    /\ status[c] = "absent"
    /\ SetStatus(c, "received")
    /\ intake' = [intake EXCEPT ![c] = "open"]
    /\ UNCHANGED <<retryCount, waiting, rows, worker, watcher, network, history>>

\* The handler's UPDATE has no condition on the status it finds.
Enqueue(c) ==
    /\ intake[c] = "open"
    /\ SetStatus(c, "queued")
    /\ intake' = [intake EXCEPT ![c] = "closed"]
    /\ UNCHANGED <<retryCount, waiting, rows, worker, watcher, network, history>>

\* The invitation could not be consumed, or Enqueue failed: the handler marks
\* the claim rejected, again whatever its status.
RejectIntake(c) ==
    /\ intake[c] = "open"
    /\ SetStatus(c, "rejected")
    /\ intake' = [intake EXCEPT ![c] = "closed"]
    /\ UNCHANGED <<retryCount, waiting, rows, worker, watcher, network, history>>

\* Enqueue failed and so did the UPDATE to rejected, whose error is ignored:
\* both use the request's context, which ends when the client goes away.
AbandonIntake(c) ==
    /\ intake[c] = "open"
    /\ intake' = [intake EXCEPT ![c] = "closed"]
    /\ UNCHANGED <<table, worker, watcher, network, history>>

-----------------------------------------------------------------------------
\* The worker: one batch per tick, one claim of it after the other.

Ready == {c \in Claims : status[c] = "queued" /\ ~waiting[c]}

\* The oldest BatchSize claims that are ready become sending.
DequeueBatch ==
    /\ wpc = "idle"
    /\ \E B \in SUBSET Ready :
        /\ B # {}
        /\ \/ B = Ready /\ Cardinality(B) <= BatchSize
           \/ B # Ready /\ Cardinality(B) = BatchSize
        /\ \A c \in B, d \in Ready \ B : c < d
        /\ batch' = B
        /\ status' = [c \in Claims |-> IF c \in B THEN "sending" ELSE status[c]]
        /\ aged' = [c \in Claims |-> IF c \in B THEN FALSE ELSE aged[c]]
    /\ wpc' = "send"
    /\ UNCHANGED <<retryCount, waiting, rows, intake, wclaim, wtx, wcount, watcher, network,
                   history>>

\* The claim the loop over the batch has reached.
Current(c) == wpc = "send" /\ c \in batch /\ \A d \in batch : c <= d

\* Put transaction <<c, k>> on the network.  A retry that finds the nonce of an
\* earlier, dropped attempt free signs the same bytes and gets the same hash;
\* otherwise the hash is new.
Broadcast(c, k) ==
    /\ \/ chain[<<c, k>>] = "dropped" /\ UNCHANGED broadcast
       \/ k = broadcast[c] + 1 /\ broadcast' = [broadcast EXCEPT ![c] = k]
    /\ chain' = [chain EXCEPT ![<<c, k>>] = "pool"]
    /\ UNCHANGED <<minedAt, height>>

\* Mutant: Send forgets the hash in the transaction it returns.
MutSendNoHash(c, k) ==
    /\ Current(c)
    /\ Broadcast(c, k)
    /\ batch' = batch \ {c}
    /\ wpc' = "ack" /\ wclaim' = c /\ wtx' = 0
    /\ attempts' = [attempts EXCEPT ![c] = @ + 1]
    /\ UNCHANGED <<table, intake, wcount, watcher, ambiguous, retries, faults>>

\* Send returns a transaction: the node accepted it.
SendOK(c, k) ==
    /\ Current(c)
    /\ Broadcast(c, k)
    /\ batch' = batch \ {c}
    /\ wpc' = "ack" /\ wclaim' = c /\ wtx' = k
    /\ attempts' = [attempts EXCEPT ![c] = @ + 1]
    /\ UNCHANGED <<table, intake, wcount, watcher, ambiguous, retries, faults>>

\* Send returns an error and nothing reached the network: gas price, balance
\* guard, nonce, signature, or the node refused the transaction.
SendError(c) ==
    /\ Current(c)
    /\ batch' = batch \ {c}
    /\ wpc' = "fail" /\ wclaim' = c
    /\ attempts' = [attempts EXCEPT ![c] = @ + 1]
    /\ UNCHANGED <<table, intake, wtx, wcount, watcher, network, broadcast, ambiguous, retries,
                   faults>>

\* SendTransaction returns an error although the node took the transaction: a
\* lost or late answer.
SendAmbiguous(c, k) ==
    /\ Current(c)
    /\ Broadcast(c, k)
    /\ batch' = batch \ {c}
    /\ wpc' = "fail" /\ wclaim' = c
    /\ attempts' = [attempts EXCEPT ![c] = @ + 1]
    /\ ambiguous' = [ambiguous EXCEPT ![c] = @ + 1]
    /\ Fault
    /\ UNCHANGED <<table, intake, wtx, wcount, watcher, retries>>

\* Go on with the next claim of the batch, or wait for the next tick.
NextClaim ==
    /\ wpc' = IF batch = {} THEN "idle" ELSE "send"
    /\ wclaim' = 0 /\ wtx' = 0 /\ wcount' = 0
    /\ UNCHANGED batch

\* One transaction moves sending to sent and inserts the transaction row; the
\* status guard (ErrNotFound) and UNIQUE(tx_hash) can refuse it.
Ackable == status[wclaim] = "sending" /\ rows[<<wclaim, wtx>>] = "none"

\* Mutant: the row is written outside the transaction, and is lost.
MutAckNoRow ==
    /\ wpc = "ack"
    /\ \/ Ackable /\ SetStatus(wclaim, "sent") /\ UNCHANGED rows
       \/ ~Ackable /\ UNCHANGED <<status, aged, rows>>
    /\ NextClaim
    /\ UNCHANGED <<retryCount, waiting, intake, watcher, network, history>>

Ack ==
    /\ wpc = "ack"
    /\ \/ /\ Ackable
          /\ SetStatus(wclaim, "sent")
          /\ rows' = [rows EXCEPT ![<<wclaim, wtx>>] = "sent"]
       \/ ~Ackable /\ UNCHANGED <<status, aged, rows>>
    /\ NextClaim
    /\ UNCHANGED <<retryCount, waiting, intake, watcher, network, history>>

\* Fail, first statement: SELECT retry_count.
FailSelect ==
    /\ wpc = "fail"
    /\ wcount' = retryCount[wclaim] + 1
    /\ wpc' = "update"
    /\ UNCHANGED <<table, intake, batch, wclaim, wtx, watcher, network, history>>

\* Mutant: dead-letter only beyond MaxRetries.
MutFailUpdate ==
    /\ wpc = "update"
    /\ retryCount' = [retryCount EXCEPT ![wclaim] = wcount]
    /\ \/ wcount > MaxRetries /\ SetStatus(wclaim, "failed") /\ UNCHANGED waiting
       \/ /\ wcount <= MaxRetries
          /\ SetStatus(wclaim, "queued")
          /\ waiting' = [waiting EXCEPT ![wclaim] = TRUE]
    /\ NextClaim
    /\ UNCHANGED <<rows, intake, watcher, network, history>>

\* Fail, second statement: dead-letter or re-queue with a backoff, whatever the
\* status is by now.
FailUpdate ==
    /\ wpc = "update"
    /\ retryCount' = [retryCount EXCEPT ![wclaim] = wcount]
    /\ \/ /\ wcount >= MaxRetries
          /\ SetStatus(wclaim, "failed")
          /\ UNCHANGED waiting
       \/ /\ wcount < MaxRetries
          /\ SetStatus(wclaim, "queued")
          /\ waiting' = [waiting EXCEPT ![wclaim] = TRUE]
    /\ NextClaim
    /\ UNCHANGED <<rows, intake, watcher, network, history>>

\* Mutant: a claim whose Ack failed is put back in the queue.
MutSettleRequeues ==
    /\ wpc \in {"ack", "fail", "update"}
    /\ Fault
    /\ SetStatus(wclaim, "queued")
    /\ NextClaim
    /\ UNCHANGED <<retryCount, waiting, rows, intake, watcher, network, attempts, broadcast,
                   ambiguous, retries>>

\* Ack or Fail returns a store error: it is logged, and the loop goes on.
SettleError ==
    /\ wpc \in {"ack", "fail", "update"}
    /\ Fault
    /\ NextClaim
    /\ UNCHANGED <<table, intake, watcher, network, attempts, broadcast, ambiguous, retries>>

-----------------------------------------------------------------------------
\* The watcher: watchReceipts, then reconcileStuck, per tick.

\* All the rows of a claim that is sent, those of its earlier attempts too.
Pending == {t \in Tx : rows[t] # "none" /\ status[t[1]] = "sent"}

\* What a query with LIMIT WatchLimit may return of S.
Page(S) ==
    {P \in SUBSET S : \/ P = S /\ Cardinality(S) <= WatchLimit
                      \/ P # S /\ Cardinality(P) = WatchLimit}

ListPendingTransactions ==
    /\ vpc = "idle"
    /\ listed' \in Page(Pending)
    /\ vpc' = IF listed' = {} THEN "reconcile" ELSE "block"
    /\ UNCHANGED <<table, intake, worker, seenBlock, stuck, network, history>>

BlockNumber ==
    /\ vpc = "block"
    /\ seenBlock' = height
    /\ vpc' = "receipts"
    /\ UNCHANGED <<table, intake, worker, listed, stuck, network, history>>

\* Mutant: the UPDATE of transactions lacks its WHERE.
MutFailAllRows(c) ==
    /\ SetStatus(c, "failed")
    /\ rows' = [t \in Tx |-> IF rows[t] # "none" THEN "failed" ELSE rows[t]]

\* Both writes of FailTransaction: no condition on the status, every row.
FailTransaction(c) ==
    /\ SetStatus(c, "failed")
    /\ rows' = [t \in Tx |-> IF t[1] = c /\ rows[t] # "none" THEN "failed" ELSE rows[t]]

\* Both writes of ConfirmTransaction: only if the claim is sent, every row.
ConfirmTransaction(c) ==
    \/ /\ status[c] = "sent"
       /\ SetStatus(c, "confirmed")
       /\ rows' = [t \in Tx |-> IF t[1] = c /\ rows[t] # "none" THEN "confirmed" ELSE rows[t]]
    \/ status[c] # "sent" /\ UNCHANGED <<status, aged, rows>>

\* Loop step: t is dealt with.
NextReceipt(t) ==
    /\ vpc = "receipts" /\ t \in listed
    /\ listed' = listed \ {t}
    /\ vpc' = IF listed' = {} THEN "reconcile" ELSE "receipts"
    /\ seenBlock' = IF listed' = {} THEN 0 ELSE seenBlock
    /\ UNCHANGED stuck

\* Mutant: off by one in the confirmations.
MutConfirmed(t) == chain[t] = "success" /\ seenBlock + 1 >= minedAt[t] + MinConfirmations

Confirmed(t) == chain[t] = "success" /\ seenBlock >= minedAt[t] + MinConfirmations

ReceiptReverted(t) ==
    /\ NextReceipt(t)
    /\ chain[t] = "reverted"
    /\ FailTransaction(t[1])
    /\ UNCHANGED <<retryCount, waiting, intake, worker, network, history>>

ReceiptConfirmed(t) ==
    /\ NextReceipt(t)
    /\ Confirmed(t)
    /\ ConfirmTransaction(t[1])
    /\ UNCHANGED <<retryCount, waiting, intake, worker, network, history>>

\* No receipt yet, or too few confirmations.
ReceiptSkipped(t) ==
    /\ NextReceipt(t)
    /\ chain[t] # "reverted" /\ ~Confirmed(t)
    /\ UNCHANGED <<table, intake, worker, network, history>>

\* The receipt could not be fetched, or the store refused the write.
ReceiptError(t) ==
    /\ NextReceipt(t)
    /\ Fault
    /\ UNCHANGED <<table, intake, worker, network, attempts, broadcast, ambiguous, retries>>

\* Mutant: only claims that were retried before count as stuck.
MutStuck == {c \in Claims : status[c] = "sending" /\ aged[c] /\ retryCount[c] > 0}

Stuck == {c \in Claims : status[c] = "sending" /\ aged[c]}

ListStuckSending ==
    /\ vpc = "reconcile"
    /\ stuck' \in Page(Stuck)
    /\ vpc' = IF stuck' = {} THEN "idle" ELSE "stuck"
    /\ UNCHANGED <<table, intake, worker, listed, seenBlock, network, history>>

\* Loop step: c is dealt with.
NextStuck(c) ==
    /\ vpc = "stuck" /\ c \in stuck
    /\ stuck' = stuck \ {c}
    /\ vpc' = IF stuck' = {} THEN "idle" ELSE "stuck"
    /\ UNCHANGED <<listed, seenBlock>>

\* Mutant: what the comment on reconcileStuck announces.
MutReconcileRequeues(c) ==
    /\ NextStuck(c)
    /\ SetStatus(c, "queued")
    /\ UNCHANGED <<retryCount, waiting, rows, intake, worker, network, history>>

ReconcileStuck(c) ==
    /\ NextStuck(c)
    /\ FailTransaction(c)
    /\ UNCHANGED <<retryCount, waiting, intake, worker, network, history>>

ReconcileError(c) ==
    /\ NextStuck(c)
    /\ Fault
    /\ UNCHANGED <<table, intake, worker, network, attempts, broadcast, ambiguous, retries>>

\* A list query or BlockNumber fails: that half of the tick is given up.
ListError ==
    /\ vpc \in {"idle", "block", "reconcile"}
    /\ Fault
    /\ vpc' = IF vpc = "reconcile" THEN "idle" ELSE "reconcile"
    /\ listed' = {}
    /\ UNCHANGED <<table, intake, worker, seenBlock, stuck, network, attempts, broadcast,
                   ambiguous, retries>>

-----------------------------------------------------------------------------
\* The operator.

AdminRetryClaim(c) ==
    /\ status[c] \in {"failed", "rejected"}
    /\ retries[c] < MaxAdminRetries
    /\ SetStatus(c, "queued")
    /\ waiting' = [waiting EXCEPT ![c] = FALSE]
    /\ retries' = [retries EXCEPT ![c] = @ + 1]
    /\ UNCHANGED <<retryCount, rows, intake, worker, watcher, network, attempts, broadcast,
                   ambiguous, faults>>

AdminCancelClaim(c) ==
    /\ status[c] \notin {"absent", "sent", "confirmed", "sending"}
    /\ SetStatus(c, "rejected")
    /\ waiting' = [waiting EXCEPT ![c] = FALSE]
    /\ UNCHANGED <<retryCount, rows, intake, worker, watcher, network, history>>

-----------------------------------------------------------------------------
\* The environment: time, the network and the process.

BackoffEnds(c) ==
    /\ waiting[c]
    /\ waiting' = [waiting EXCEPT ![c] = FALSE]
    /\ UNCHANGED <<status, retryCount, aged, rows, intake, worker, watcher, network, history>>

StuckTimeout(c) ==
    /\ status[c] = "sending" /\ ~aged[c]
    /\ aged' = [aged EXCEPT ![c] = TRUE]
    /\ UNCHANGED <<status, retryCount, waiting, rows, intake, worker, watcher, network, history>>

\* A block with transaction t in it.
Mine(t) ==
    /\ chain[t] = "pool"
    /\ \E r \in {"success", "reverted"} : chain' = [chain EXCEPT ![t] = r]
    /\ height' = height + 1
    /\ minedAt' = [minedAt EXCEPT ![t] = height + 1]
    /\ UNCHANGED <<table, intake, worker, watcher, history>>

EmptyBlock ==
    /\ height < MaxHeight
    /\ height' = height + 1
    /\ UNCHANGED <<table, intake, worker, watcher, chain, minedAt, history>>

\* A mempool forgets t: evicted, or replaced at its nonce.
Drop(t) ==
    /\ chain[t] = "pool"
    /\ chain' = [chain EXCEPT ![t] = "dropped"]
    /\ UNCHANGED <<table, intake, worker, watcher, minedAt, height, history>>

\* The process dies or is shut down, and comes back.
Restart ==
    /\ Fault
    /\ intake' = [c \in Claims |-> IF intake[c] = "open" THEN "closed" ELSE intake[c]]
    /\ wpc' = "idle" /\ batch' = {} /\ wclaim' = 0 /\ wtx' = 0 /\ wcount' = 0
    /\ vpc' = "idle" /\ listed' = {} /\ seenBlock' = 0 /\ stuck' = {}
    /\ UNCHANGED <<table, network, attempts, broadcast, ambiguous, retries>>

-----------------------------------------------------------------------------

WorkerStep ==
    \/ DequeueBatch \/ Ack \/ FailSelect \/ FailUpdate \/ SettleError
    \/ \E c \in Claims :
        \/ SendError(c)
        \/ \E k \in 1 .. MaxTx : SendOK(c, k) \/ SendAmbiguous(c, k)

WatcherStep ==
    \/ ListPendingTransactions \/ BlockNumber \/ ListStuckSending \/ ListError
    \/ \E t \in Tx :
        ReceiptReverted(t) \/ ReceiptConfirmed(t) \/ ReceiptSkipped(t) \/ ReceiptError(t)
    \/ \E c \in Claims : ReconcileStuck(c) \/ ReconcileError(c)

Next ==
    \/ \E c \in Claims :
        \/ CreateClaim(c) \/ Enqueue(c) \/ RejectIntake(c) \/ AbandonIntake(c)
        \/ AdminRetryClaim(c) \/ AdminCancelClaim(c)
        \/ BackoffEnds(c) \/ StuckTimeout(c)
    \/ WorkerStep
    \/ WatcherStep
    \/ \E t \in Tx : Mine(t) \/ Drop(t)
    \/ EmptyBlock
    \/ Restart

Spec == Init /\ [][Next]_vars

\* Worker.Run and Watcher.Run take a step at every tick, so each goes on as long
\* as it has something to do, and time passes.  Nothing is assumed of clients,
\* operators or the network.
Fairness ==
    /\ WF_vars(WorkerStep)
    /\ WF_vars(WatcherStep)
    /\ WF_vars(\E c \in Claims : BackoffEnds(c) \/ StuckTimeout(c))

FairSpec == Spec /\ Fairness

-----------------------------------------------------------------------------

\* Every variable stays in its domain; in particular the claim and the
\* transaction the worker is settling exist whenever it is about to use them.
TypeOK ==
    /\ status \in [Claims -> ClaimStatus]
    /\ retryCount \in [Claims -> Nat]
    /\ waiting \in [Claims -> BOOLEAN]
    /\ aged \in [Claims -> BOOLEAN]
    /\ rows \in [Tx -> RowStatus]
    /\ intake \in [Claims -> {"none", "open", "closed"}]
    /\ wpc \in {"idle", "send", "ack", "fail", "update"}
    /\ batch \subseteq Claims
    /\ wpc \in {"ack", "fail", "update"} => wclaim \in Claims
    /\ wpc = "ack" => wtx \in 1 .. MaxTx
    /\ wcount \in Nat
    /\ vpc \in {"idle", "block", "receipts", "reconcile", "stuck"}
    /\ listed \subseteq Tx
    /\ seenBlock \in Nat
    /\ stuck \subseteq Claims
    /\ chain \in [Tx -> TxState]
    /\ minedAt \in [Tx -> Nat]
    /\ height \in Nat
    /\ attempts \in [Claims -> Nat]
    /\ broadcast \in [Claims -> Nat]
    /\ ambiguous \in [Claims -> Nat]
    /\ retries \in [Claims -> Nat]
    /\ faults \in Nat

\* Paid at most once: whatever the interleaving, and over any number of
\* crashes, store errors and timeouts, a second transaction for one claim needs
\* an operator's retry or a broadcast that the node accepted while
\* SendTransaction reported an error.  It is why reconcileStuck may not
\* re-queue a claim that was left in sending.
AtMostOncePayout ==
    \A c \in Claims : broadcast[c] <= 1 + retries[c] + ambiguous[c]

\* Fail's dead-lettering bounds the work spent on a claim: no claim is handed to
\* the sender more than MaxRetries times plus once per admin retry, although
\* Ack, Fail and the watcher may leave or put it back in any state meanwhile.
AttemptsBounded ==
    \A c \in Claims : attempts[c] <= MaxRetries + retries[c]

\* A claim shown as confirmed was paid: one of its recorded transactions was
\* mined with receipt status 1 and has MinConfirmations blocks on top of it.
ConfirmedIsSettled ==
    \A c \in Claims : status[c] = "confirmed" =>
        \E k \in 1 .. MaxTx :
            /\ rows[<<c, k>>] # "none"
            /\ chain[<<c, k>>] = "success"
            /\ height >= minedAt[<<c, k>>] + MinConfirmations

\* The watcher can find every claim that is sent: it has a transaction row that
\* is not closed, so ListPendingTransactions joins it.
SentHasOpenRow ==
    \A c \in Claims : status[c] = "sent" =>
        \E k \in 1 .. MaxTx : rows[<<c, k>>] = "sent"

\* A recorded transaction of c is mined and deep enough.
Settled(c) ==
    \E k \in 1 .. MaxTx :
        /\ rows[<<c, k>>] # "none"
        /\ chain[<<c, k>>] \in {"success", "reverted"}
        /\ height >= minedAt[<<c, k>>] + MinConfirmations

\* Something is left to do for c that the process can do: pay it, decide on a
\* payment under way, or take notice of its settled transaction.  The last only
\* if the transactions the watcher has to look at fit into its page, which has no
\* order; for a transaction that is never mined nothing can be done.
Due(c) ==
    \/ status[c] \in {"queued", "sending"}
    \/ status[c] = "sent" /\ Settled(c) /\ Cardinality(Pending) <= WatchLimit

\* No claim is forgotten: backoffs, older claims filling the batches, errors,
\* restarts, the batch's age and the other claim's unmined transaction delay the
\* worker and the watcher, but retries come to an end, what a crash, a lost Ack or
\* a failed Fail leaves in sending is moved on, and a receipt is acted on.
NoClaimIsForgotten ==
    \A c \in Claims : Due(c) ~> ~Due(c)

\* The pipeline keeps the promise of PayoutPromise about every payment.
Promise == INSTANCE PayoutPromise WITH
    granted <- [c \in Claims |-> 1 + retries[c] + ambiguous[c]],
    paid <- broadcast,
    shown <- {c \in Claims : status[c] = "confirmed"}

KeepsPromise == Promise!Spec

=============================================================================
