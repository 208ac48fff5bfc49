----------------------------- MODULE FaucetApp -----------------------------
(***************************************************************************)
(* The faucet process: NewWithLogger acquires the database, the chain      *)
(* client and the signer one after the other and gives back what it has    *)
(* when one of them fails; main serves until a signal or a listener error, *)
(* lets the handlers drain, stops the worker and the watcher and releases  *)
(* the resources, each under a deadline.  The worker's Send is             *)
(* FaucetSender; a stop, a crash or a restart may fall between any two of  *)
(* its calls.                                                              *)
(***************************************************************************)
EXTENDS FaucetSender

CONSTANTS
    Candidates,   \* RPC URLs, after CandidateRPCURLs removes duplicates
    Migrations,   \* embedded schema migrations
    Modes,        \* configurations: DryRun, WorkerEnabled, WatcherEnabled
    MaxStarts     \* bound: starts of the process

ASSUME AppAssumption ==
    /\ Candidates \in Nat \ {0} /\ Migrations \in Nat /\ MaxStarts \in Nat
    /\ Modes \subseteq [dry : BOOLEAN, worker : BOOLEAN, watcher : BOOLEAN]

VARIABLES
    phase, cfg,
    \* resources held: the database handle, the open clients by candidate
    store, open,
    \* newValidatedClient: the candidate tried, and whether its chain is ours
    cand, ours,
    \* goroutines and requests
    worker, watcher, handling,
    \* Close: a.ctx is cancelled, its deadline passed; requests were cut off
    cancelled, expired, cut,
    \* durable: migrations recorded
    schema,
    starts

held == <<store, open>>
dialled == <<cand, ours>>
tasks == <<worker, watcher, handling>>
stops == <<cancelled, expired, cut>>
vars == <<phase, cfg, held, dialled, tasks, stops, schema, starts, senderVars>>

Init ==
    /\ SenderInit
    /\ phase = "down" /\ cfg \in Modes
    /\ store = FALSE /\ open = {} /\ cand = 1 /\ ours = FALSE
    /\ worker = "off" /\ watcher = "off" /\ handling = FALSE
    /\ cancelled = FALSE /\ expired = FALSE /\ cut = FALSE
    /\ schema = 0 /\ starts = 0

-----------------------------------------------------------------------------
\* NewWithLogger.

Starting == UNCHANGED <<cfg, tasks, stops, starts, senderVars>>

\* A step of NewWithLogger fails: what is held is closed and main exits.
Refuse ==
    /\ phase' = "refused"
    /\ store' = FALSE /\ open' = {}
    /\ Fault
    /\ UNCHANGED <<cfg, dialled, tasks, stops, schema, starts>>
    /\ UNCHANGED <<sender, node, sent, fate, exposed, lost>>

\* main loads its configuration and calls NewWithLogger.
Boot ==
    /\ phase = "down" /\ starts < MaxStarts
    /\ starts' = starts + 1
    /\ phase' = "open"
    /\ cfg' \in Modes
    /\ UNCHANGED <<held, dialled, tasks, stops, schema, senderVars>>

\* openStore and sqlite.Open up to Migrate.
openStore ==
    /\ phase = "open"
    /\ \/ /\ phase' = "migrate" /\ store' = TRUE
          /\ Starting /\ UNCHANGED <<open, dialled, schema>>
       \/ Refuse

\* Mutant: a recorded migration is applied again.
MutApplyMigration ==
    /\ phase = "migrate"
    /\ schema' = schema + 1
    /\ Starting /\ UNCHANGED <<phase, held, dialled>>

\* Migrate: the migrations not yet recorded, in order, each in a transaction
\* with its record.
applyMigration ==
    /\ phase = "migrate" /\ schema < Migrations
    /\ \/ /\ schema' = schema + 1
          /\ Starting /\ UNCHANGED <<phase, held, dialled>>
       \/ Refuse

\* The schema is current: PruneSignalsByRetention, then newSender, which dials
\* nothing in a dry run.
PruneSignals ==
    /\ phase = "migrate" /\ schema = Migrations
    /\ \/ /\ phase' = IF cfg.dry THEN "captcha" ELSE "dial"
          /\ cand' = 1 /\ ours' = FALSE
          /\ Starting /\ UNCHANGED <<held, schema>>
       \/ Refuse

\* The next candidate, or no client at all.
NextCandidate ==
    \/ /\ cand < Candidates
       /\ cand' = cand + 1 /\ ours' = FALSE /\ phase' = "dial"
       /\ Starting /\ UNCHANGED <<store, schema>>
    \/ /\ cand = Candidates
       /\ phase' = "refused" /\ store' = FALSE
       /\ Starting /\ UNCHANGED <<dialled, schema>>

\* NewClient for one candidate: not reachable, or open, on our chain or another.
NewClient ==
    /\ phase = "dial"
    /\ \/ NextCandidate /\ UNCHANGED open
       \/ /\ open' = open \cup {cand} /\ ours' \in BOOLEAN
          /\ phase' = "validate"
          /\ Starting /\ UNCHANGED <<store, cand, schema>>

\* Mutant: a client of another chain is not closed.
MutValidateChainID ==
    /\ phase = "validate"
    /\ \/ ours /\ phase' = "signer" /\ Starting /\ UNCHANGED <<held, dialled, schema>>
       \/ NextCandidate /\ UNCHANGED open

\* Mutant: the answer is not compared.
MutChainIDIgnored ==
    /\ phase = "validate"
    /\ phase' = "signer" /\ Starting /\ UNCHANGED <<held, dialled, schema>>

\* ValidateChainID: another chain, or no answer, closes the client.
ValidateChainID ==
    /\ phase = "validate"
    /\ \/ ours /\ phase' = "signer" /\ Starting /\ UNCHANGED <<held, dialled, schema>>
       \/ NextCandidate /\ open' = open \ {cand}

\* NewPrivateKeySigner.
NewSigner ==
    /\ phase = "signer"
    /\ \/ phase' = "captcha" /\ Starting /\ UNCHANGED <<held, dialled, schema>>
       \/ Refuse

\* newCaptchaVerifier, then the handler tree, the close functions, the worker
\* and, unless in a dry run, the watcher.
newCaptchaVerifier ==
    /\ phase = "captcha"
    /\ \/ /\ phase' = "serving"
          /\ worker' = IF cfg.worker THEN "idle" ELSE "off"
          /\ watcher' = IF ~cfg.dry /\ cfg.watcher /\ open # {} THEN "idle" ELSE "off"
          /\ UNCHANGED <<cfg, held, dialled, handling, stops, schema, starts, senderVars>>
       \/ Refuse

NewWithLogger ==
    \/ openStore \/ applyMigration \/ PruneSignals \/ NewClient
    \/ ValidateChainID \/ NewSigner \/ newCaptchaVerifier

-----------------------------------------------------------------------------
\* Serving: requests, the worker and the watcher.

Running == UNCHANGED <<phase, cfg, held, dialled, stops, schema, starts>>

\* A request is accepted while the listener is open.
HandlerBegins ==
    /\ phase = "serving" /\ ~handling
    /\ handling' = TRUE
    /\ Running /\ UNCHANGED <<worker, watcher, senderVars>>

HandlerEnds ==
    /\ handling
    /\ handling' = FALSE
    /\ Running /\ UNCHANGED <<worker, watcher, senderVars>>

\* Worker.Run: a tick, and processBatch has claims; with a.ctx cancelled
\* DequeueBatch gives none.
BatchBegins ==
    /\ worker = "idle" /\ ~cancelled
    /\ worker' = "busy"
    /\ Running /\ UNCHANGED <<watcher, handling, senderVars>>

\* The next claim of the batch goes to Send; DryRunSender returns at once.
ClaimTaken ==
    /\ worker = "busy" /\ ~cfg.dry
    /\ SendBegins
    /\ Running /\ UNCHANGED tasks

\* Send under a.ctx as long as it lives.
ClaimSent ==
    /\ worker = "busy" /\ ~cancelled
    /\ Send
    /\ Running /\ UNCHANGED tasks

\* SendTransaction does not return nil.
SendInterrupted ==
    /\ Reset
    /\ sent' = sent + 1 /\ wpc' = "idle"
    /\ UNCHANGED <<hand, next, mined, exposed, lost, faults>>

\* Send under a cancelled a.ctx: its calls fail, but NonceManager's counter and
\* the signer need no context, and a broadcast on its way may arrive.
ClaimCancelled ==
    /\ worker = "busy" /\ cancelled
    /\ \/ /\ wpc = "prepare" \/ (wpc = "nonce" /\ ~seeded)
          /\ wpc' = "idle"
          /\ UNCHANGED <<hand, seeded, next, node, sent, fate, exposed, lost, faults>>
       \/ seeded /\ NextNonce
       \/ wpc = "sign" /\ NotPooled /\ SendInterrupted
       \/ wpc = "broadcast" /\ (Pooled \/ NotPooled) /\ SendInterrupted
    /\ Running /\ UNCHANGED tasks

\* Ack or Fail of the last claim, and back to the ticker.
BatchEnds ==
    /\ worker = "busy" /\ wpc = "idle"
    /\ worker' = "idle"
    /\ Running /\ UNCHANGED <<watcher, handling, senderVars>>

\* Watcher.Run: watchReceipts and reconcileStuck.
WatchBegins ==
    /\ watcher = "idle" /\ ~cancelled
    /\ watcher' = "busy"
    /\ Running /\ UNCHANGED <<worker, handling, senderVars>>

WatchEnds ==
    /\ watcher = "busy"
    /\ watcher' = "idle"
    /\ Running /\ UNCHANGED <<worker, handling, senderVars>>

\* Run returns on ctx.Done, between two ticks.
RunReturns ==
    /\ cancelled
    /\ \/ worker = "idle" /\ worker' = "off" /\ UNCHANGED watcher
       \/ watcher = "idle" /\ watcher' = "off" /\ UNCHANGED worker
    /\ Running /\ UNCHANGED <<handling, senderVars>>

Background ==
    \/ HandlerBegins \/ HandlerEnds \/ BatchBegins \/ ClaimTaken \/ ClaimSent
    \/ ClaimCancelled \/ BatchEnds \/ WatchBegins \/ WatchEnds \/ RunReturns

-----------------------------------------------------------------------------
\* main and App.close.

Stopping == UNCHANGED <<cfg, dialled, tasks, schema, starts, senderVars>>

\* SIGINT or SIGTERM: server.Shutdown closes the listener.
Signal ==
    /\ phase = "serving"
    /\ phase' = "draining"
    /\ Stopping /\ UNCHANGED <<held, stops>>

\* Close cancels a.ctx.
CloseBegins == phase' = "closing" /\ cancelled' = TRUE

\* ListenAndServe fails: Close follows at once, with requests under way or not.
ListenFails ==
    /\ phase = "serving"
    /\ CloseBegins
    /\ cut' = handling
    /\ Stopping /\ UNCHANGED <<held, expired>>

\* Shutdown returns: no request is left, or its ten seconds are over.
Shutdown ==
    /\ phase = "draining"
    /\ CloseBegins
    /\ cut' = handling
    /\ Stopping /\ UNCHANGED <<held, expired>>

\* Mutant: without the deadline.
MutAwaitTasks ==
    /\ phase = "closing"
    /\ worker = "off" /\ watcher = "off"
    /\ phase' = "releasing"
    /\ Stopping /\ UNCHANGED <<held, stops>>

\* Mutant: the wait is given up, and the deadline is not taken for passed.
MutAwaitGivenUp ==
    /\ phase = "closing"
    /\ phase' = "releasing"
    /\ Stopping /\ UNCHANGED <<held, stops>>

\* Close waits for the goroutines to return, or for its deadline.
AwaitTasks ==
    /\ phase = "closing"
    /\ phase' = "releasing"
    /\ \/ worker = "off" /\ watcher = "off" /\ UNCHANGED expired
       \/ expired' = TRUE
    /\ Stopping /\ UNCHANGED <<held, cancelled, cut>>

\* Close's deadline passes between two close functions.
Expire ==
    /\ phase = "releasing" /\ ~expired
    /\ expired' = TRUE
    /\ Stopping /\ UNCHANGED <<phase, held, cancelled, cut>>

\* The close functions from the last to the first, the client before the
\* database; none after the deadline.
Release ==
    /\ phase = "releasing"
    /\ \/ /\ ~expired /\ open # {}
          /\ open' = {} /\ UNCHANGED <<phase, store>>
       \/ /\ ~expired /\ open = {} /\ store
          /\ store' = FALSE /\ UNCHANGED <<phase, open>>
       \/ /\ expired \/ ~store
          /\ phase' = "stopped" /\ UNCHANGED held
    /\ Stopping /\ UNCHANGED stops

\* The process is gone, and its memory with it.
Gone ==
    /\ phase' = "down"
    /\ store' = FALSE /\ open' = {} /\ cand' = 1 /\ ours' = FALSE
    /\ worker' = "off" /\ watcher' = "off" /\ handling' = FALSE
    /\ cancelled' = FALSE /\ expired' = FALSE /\ cut' = FALSE
    /\ Forget
    /\ UNCHANGED <<cfg, schema, starts>>

\* main returns, or calls os.Exit.
Exit ==
    /\ phase \in {"refused", "stopped"}
    /\ Gone /\ UNCHANGED faults

Crash ==
    /\ phase \notin {"down", "refused", "stopped"}
    /\ Gone /\ Fault

Main == Shutdown \/ AwaitTasks \/ Release \/ Exit

Chain == (Mine \/ Evict) /\ UNCHANGED <<phase, cfg, held, dialled, tasks, stops, schema, starts>>

Next ==
    \/ Boot \/ NewWithLogger \/ Background \/ Chain
    \/ Signal \/ ListenFails \/ Expire \/ Main \/ Crash

\* main runs on, and its deadlines pass; neither a goroutine nor a handler is
\* assumed to return.
Spec == Init /\ [][Next]_vars /\ WF_vars(Main)

-----------------------------------------------------------------------------
\* Properties.

Phases ==
    {"down", "open", "migrate", "dial", "validate", "signer", "captcha",
     "serving", "draining", "closing", "releasing", "stopped", "refused"}

\* Every variable has its type.
TypeOK ==
    /\ SenderTypeOK
    /\ phase \in Phases /\ cfg \in Modes
    /\ store \in BOOLEAN /\ open \subseteq 1..Candidates
    /\ cand \in 1..Candidates /\ ours \in BOOLEAN
    /\ worker \in {"off", "idle", "busy"} /\ watcher \in {"off", "idle", "busy"}
    /\ handling \in BOOLEAN
    /\ cancelled \in BOOLEAN /\ expired \in BOOLEAN /\ cut \in BOOLEAN
    /\ schema \in 0..Migrations /\ starts \in 0..MaxStarts

\* The faucet serves only with the whole schema applied and, outside a dry run,
\* with one client, which is on the configured chain; a payment is never sent by
\* another.
ServesWhatItValidated ==
    /\ phase \in {"serving", "draining"} => store /\ schema = Migrations
    /\ (phase \in {"serving", "draining"} \/ wpc # "idle") /\ ~cfg.dry =>
           ours /\ open = {cand}

\* No goroutine uses the database or the client after it is closed, however the
\* stop falls into a batch; a request does only if Shutdown ran out of time or
\* the listener failed.
NoUseAfterClose ==
    /\ worker = "busy" \/ watcher = "busy" => store /\ (cfg.dry \/ open # {})
    /\ handling /\ ~cut => store

\* A start that fails, and a Close that returns in time, leave no database
\* handle, no client and no goroutine behind.
NothingLeftOpen ==
    phase = "refused" \/ (phase = "stopped" /\ ~expired) =>
        ~store /\ open = {} /\ worker = "off" /\ watcher = "off"

\* Once a stop is requested the process ends, even if a handler, the worker or
\* the watcher never returns.
StopEnds == phase \in {"draining", "closing"} ~> phase = "down"

=============================================================================
