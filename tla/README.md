# scavium-faucet and scavium-netgen in TLA+

The repository holds a token faucet service (`cmd/scavium-faucet`), a generator
of network configurations (`cmd/scavium-netgen`) and some command-line tools.
The modules here are about the first two: the faucet runs things concurrently
and moves money, and the generator writes keys that must never be lost.

## The system

The parts of the faucet share only the SQLite database and the chain:

| part | code | does | module |
|---|---|---|---|
| HTTP API | `httpapi` | decodes requests, one goroutine each | `AdminControl` (admin routes) |
| claim intake | `faucet/persistent_service.go`, `faucet/wallet.go` | `CreateClaim`: idempotency, wallet challenge, mode, blocklist, campaign, captcha, risk, cooldown, rate limits, budgets, insert, invitation, enqueue; the status page | `ClaimIntake` |
| abuse | `abuse`, `captcha` | blocklist, signals, progressive enforcement | `RiskGuard` |
| store | `store/sqlite`, `migrations` | claims, transactions, counters, challenges, campaigns, audit, signals | all |
| worker | `worker` | takes a batch of queued claims, sends each, records the result | `PayoutPipeline` |
| sender, nonces | `chain/sender.go`, `chain/nonce.go` | signs and broadcasts one transaction | `FaucetSender` |
| watcher | `chain/watcher.go` | confirms or fails sent claims, fails claims stuck in sending | `PayoutPipeline` |
| admin | `admin` | retry, cancel, mode, policy, blocklist, campaigns, audit log | `AdminControl` |
| application | `app`, `main.go`, `chain/chain.go` | start, goroutines, shutdown | `FaucetApp` |
| support | `config`, `observability`, `ready`, `iputil`, `frontend` | settings, metrics, probes, helpers, pages | none |

`scavium-netgen` is one process that writes files; its module is `Netgen`.

`PROJECT.json` lists every part with its status, the map from definitions to
source lines, and the hazards with the properties that cover them.

## Modules

| module | contents |
|---|---|
| `PayoutPipeline` | a claim from its insert on: end of the claim handler, worker, watcher, admin retry and cancel, network, faults, restart |
| `PayoutPromise` | what the pipeline promises about money, and nothing else |
| `PayoutDocumented` | sentences of comments and documents about the pipeline that the code does not keep |
| `ClaimIntake` | `CreateClaim` up to and including `Enqueue`, one process per request, and `AddressStatus` |
| `RiskGuard` | the screening inside `CreateClaim`: blocklist, captcha, risk engine, signals |
| `AdminControl` | every mutation of the admin API with its audit entry and rollback |
| `FaucetSender` | `EthSender.Send` and `NonceManager` against a node's transaction pool |
| `FaucetApp` | the life of the process, composed with `FaucetSender` |
| `Netgen` | the files that `init`, `regen` and `inventory` write |
| `MC...` | instances for TLC: requests, clients, command lines, symmetry |
| `PayoutPipelineProofs`, `PayoutWatcherProofs` | theorems about `PayoutPipeline`; the second has those about the watcher and the refinement |
| `ClaimIntakeProofs`, `ClaimLimitsProofs` | theorems about `ClaimIntake` |
| `FaucetAppProofs` | theorems about `FaucetApp`, with the lemmas about the nonces of `FaucetSender` |
| `AdminControlProofs` | theorems about `AdminControl` |
| `RiskGuardProofs` | theorems about `RiskGuard` |
| `NetgenProofs` | theorems about `Netgen` |

An operator whose name begins with `Mut` is a plausible wrong version of the
definition after it. No specification uses it; it is there to show that a
property would notice.

### PayoutPipeline

`status`, `retryCount`, `waiting`, `aged` are the columns of `requests`
(`waiting`: `next_attempt_at` is in the future; `aged`: `updated_at` is older
than the stuck timeout), `rows` is the `transactions` table. `wpc`, `batch`,
`wclaim`, `wtx`, `wcount` are local to `Worker.processBatch`; `vpc`, `listed`,
`seenBlock`, `stuck` to a watcher cycle; `chain`, `minedAt`, `height` are the
network. The rest is history that no action reads but for its bounds.

One action is one SQL transaction or one RPC call, so others interleave exactly
where they can in the program. `Fail` is two actions because it is two
statements. Lists the watcher reads are kept and used later, as in the code.
`SendOK`, `SendError` and `SendAmbiguous` are the outcomes of `Send`: sent, not
sent, and sent but reported as an error. `Restart` clears all that is local.

Abstractions:

- a broadcast is a new transaction or the re-broadcast the code can produce;
  nonces are the matter of `FaucetSender`, gas and fees are left out;
- a receipt is fetched and acted on in one step, since receipts do not change
  (chain reorganisations are not modelled);
- a commit either happens or is reported as failed;
- there is one worker process, as `app.go` starts one;
- the order of stuck claims is any order; a page of pending transactions is any
  subset of the limit's size, as the query has no ORDER BY;
- the audit entry after an admin command is in `AdminControl`.

### ClaimIntake

`pc` is the statement a handler is about to run. `created` and `window` are its
two readings of the clock. `status`, `challenge`, `uses` and `count` are tables.
`revived`, `seen` and `rated` are history. `AddressStatus` is what the status
page would answer in the present state; it changes nothing.

Abstractions:

- one token, so budgets are counted in claims;
- `queued` stands for queued, sending, sent and confirmed, which the budgets
  count alike;
- mode, token and blocklist are the step `Screen`; captcha and risk engine are
  part of `CheckCampaignBudget` (`RiskGuard` has them in detail); a failed
  check, a store error and a client that goes away are all `Refuse`;
- the runtime policy and the campaign do not change during a run;
- a crash is every open handler giving up, at `Refuse` or `AbandonIntake`;
- without budgets the code calls `CreateClaimWithIdempotency`, which
  `UNIQUE(idempotency_key)` gives the same effect.

### RiskGuard

`rows` is the table `abuse_signals`; `ledger` keeps what pruning deletes. `pc` is
the next query or INSERT of a request; `t` the clock it has read, which it uses
for several queries; `score` the heuristics' sum. Time is in half seconds, so
that `formatTime` can be what it is: RFC3339Nano text drops trailing zeros, and
in the order of texts the half of a second comes before its start. The three
lookups of the blocklist are one step, because an admin's change of one key
between them has the effect of a change before or after. The captcha's
verdict and the outcome of the limits are free choices.

### AdminControl

`inForce` is the row of every object an admin can change (mode, policy,
campaigns, codes, allowlist entries, blocked keys), `audited` what the last audit
entry about it says. A request reads, writes, appends its entry and, where the
code does so, puts back what it read when the entry fails (`Rollback`); each is
a step of its own. `Disconnect` cancels the context: every later statement of the
request fails. `PayoutMove` is what worker and watcher do to claims meanwhile.
Replies are abstracted to the classes of status codes. `tainted` and `undone` are
history: objects that two requests wrote at once or that kept a change nobody
logged, and campaigns whose creation was undone too late for a child's check.

### FaucetSender and FaucetApp

`seeded` and `next` are the `NonceManager`; `hand` is the nonce `Send` holds;
`mined` and `pool` are the node's view of the faucet's account. A refusal by
`SendTransaction` needs its reason; any other error leaves it open whether
the node has the transaction. `NextNonce` uses the mined nonce, as `NonceAt(nil)`
does. Rivals with one nonce replace each other when the node accepts them, which
depends on gas prices and is a free choice here.

`FaucetApp` extends it by the process. `phase` is where `NewWithLogger` or `main`
stands, `store` and `open` are the resources held, `worker`, `watcher` and
`handling` the goroutines. Crashes and stops fall between any two calls of
`Send`. `schema` survives them. A request is only under way or not; any number
of them counts as one.

### Netgen

`disk` maps a file to its contents: absent, cut short, or the keys it was derived
from. `todo` is what the invocation has still to write, `Due` its order. Each
invocation has its own flags and starts from what is on disk. `Stop` may leave the
file being written cut short, as `os.WriteFile` truncates first. Within a loop over
nodes or accounts the order is free.

## Runs

| run | checks | distinct states |
|---|---|---|
| `payout_one_claim` | types; `PayoutPipeline` implements `PayoutPromise`; attempts bounded; confirmed means settled; sent claims visible to the watcher | 542,562 |
| `payout_two_claims` | one payment and visibility with two claims in a batch; no claim is forgotten | 335,438 |
| `intake_shared` | types; one answer per idempotency key; a challenge lets one claim in; invitation uses | 236,420 |
| `intake_limits` | budgets of day and campaign, rate limit, cooldown; the status page agrees with the claim path, and its announcements stand | 456,738 |
| `risk_guard` | who is at a threshold stays out; nobody is turned away for strangers' or past deeds | 1,853,174 |
| `admin_control` | the audit log explains what is in force; replies are true; no orphans; admin commands keep off payments | 753,496 |
| `faucet_app` | only a validated chain and a whole schema serve; nothing is used after it is closed or left open; nonces; a stop ends | 424,887 |
| `netgen` | keys are never replaced nor lost; the network's files agree; failures have a reason | 249,735 |

What the passing runs say has its conditions in the formula:

- `AtMostOncePayout` allows one more transaction per admin retry and per
  ambiguous broadcast.
- `NoClaimIsForgotten`: a claim that is queued or sending, or sent with a settled
  transaction while the pending ones fit the watcher's page, does not stay so.
- `DailyBudgetKept` leaves out claims an operator or a late `Enqueue` brought back,
  and claims stamped before midnight and checked after it.
- `CooldownKept` is about the claims that were in the table at the check.
- `EligibleIsLetThrough` is about cooldown and daily budget, not about rate limits
  and screening, which the status page does not announce.
- `LockedOutStaysOut` counts signals that were recorded, to the second, and rests
  on a retention that is not shorter than the window (`WindowAssumption`).
- `RejectedForOwnDeeds` needs heuristic thresholds other than 1
  (`HeuristicAssumption`): at 1 the request's own captcha signal is enough.
- `AuditExplainsState` leaves out the objects of `tainted`.
- `NoUseAfterClose` excuses requests that `Shutdown` or a listener error cut off.
- `ReplacedOnlyAfterReseed` and `GapsExplained` name the two ways in which the
  nonce manager lets a payment be replaced or wait.
- `NetworkIsConsistent` is about `init` and `regen` that may overwrite.

The `doc_*` runs each violate one sentence of the repository; the finding in
`PROJECT.json` quotes it:

| run | the code |
|---|---|
| `doc_terminal` | `Enqueue` takes a cancelled claim back (and the revert of a second transaction fails a confirmed one) |
| `doc_received` | leaves a claim in received after a restart |
| `doc_audit` | keeps an unaudited campaign when the client goes away, since the rollback runs under the cancelled context as well |
| `doc_nonce` | gives out the nonce of a pending transaction after a failed send |

`RestartSpec`, of `doc_received`, schedules every handler and lets no client go
away, so that the lost claim is a restart's doing. `UninterruptedSpec`, of
`doc_audit`, has no restarts, so that every rollback is attempted.

Smaller disagreements without a run of their own:

- `watcher.go:144` says that stuck claims go back to queued; `reconcileStuck`
  fails them. The comment's version, `MutReconcileRequeues`, breaks
  `AtMostOncePayout`, so it is the code that is right.
- `interfaces.go:114` says that stuck claims are those "whose worker died
  mid-flight"; the query goes by age, and finds claims that wait in a live
  worker's batch.
- `admin.go:211` says that cancel is for claims not yet sent; it goes by status,
  and a claim is queued again after an ambiguous broadcast.
- `watcher.go:36` says that the watcher drives claims to terminal states; the
  claim of a dropped transaction stays in sent.
- `security.md:100` says that the budget limits the total of a UTC day; a claim
  stamped before midnight and checked after it is charged to the old day and
  compared with the new one. Hence `window` in `DailyBudgetKept`.
- `configuration.md:20` says that the cooldown is enforced per address; two
  overlapping requests of one address are both created. Hence `seen` in
  `CooldownKept`.

### Bounds

- Payout: `MaxTx` (2 or 3) is one more than the transactions needed to pay twice.
  `MaxRetries = 2`: one failure that re-queues and one that dead-letters.
  `MaxFaults` (1 or 2) store errors, RPC errors or crashes: two let a fault hit
  the recovery from a fault. `MaxHeight` limits empty blocks only, so a
  transaction can always be mined; `MinConfirmations` is 1 in the run that checks
  `ConfirmedIsSettled`. Two claims share a batch and compete for a page of one.
- Intake: three requests where keys, challenges and codes are shared, so that a
  third meets what two left behind; two for the limits, whose clock runs over two
  days and four hours. Budgets and uses of one, so that the last place is
  contested.
- Risk: two requests at a time, signals left by earlier ones, thresholds of one
  to three, and instants in the middle of a second and a window later.
- Admin: two requests in flight, three in all, one object of each kind and two
  faults: an audit entry and its rollback can both fail.
- Application: two candidates, one migration, three starts, two broadcasts and
  two faults, so that a nonce is reseeded with the other payment pending, after a
  failed send as well as after a restart.
- Netgen: three invocations, one of them interrupted, out of nine command
  lines that between them use every flag, every state of Besu and every role.

Handlers, requests and admins are symmetric: nothing orders them. Where a
configuration does not check deadlock, a finite set of requests, starts or
invocations comes to its end. The payout runs check it.

### Fairness

`Fairness` in `PayoutPipeline` is weak fairness of `WorkerStep`, of `WatcherStep`,
and of the passing of time. `Worker.Run` and `Watcher.Run` loop on a ticker and go on
after every error, and calls to store and node are assumed to return. Nothing is
assumed of clients, operators or the network, and faults are bounded.

In `FaucetApp` only `Main` is fair: `main` runs on, and its deadlines pass.
Neither a goroutine nor a handler is assumed to return, so `StopEnds` rests on the
deadlines alone.

## Proofs

Every invariant and every action property of the passing runs is proved, for
every value of the constants that the named assumptions allow; the liveness
properties are not. Each proof goes through the actions once or twice to find
out what a step can do, and then argues about those facts.

### Payout

For all claims, limits, and values of the bounds, from `ClaimsAssumption` (ids
are numbers, in order of creation), `LimitsAssumption` (batch sizes and retry
limit positive) and `BoundsAssumption`:

| theorem | states |
|---|---|
| `TypeCorrect` | `Spec => []TypeOK` |
| `PaidAtMostOnce` | `Spec => []AtMostOncePayout` |
| `AttemptsAreBounded` | `Spec => []AttemptsBounded` |
| `ConfirmedOnlyIfSettled` | `Spec => []ConfirmedIsSettled` |
| `SentIsVisible` | `Spec => []SentHasOpenRow` |
| `PipelineKeepsPromise` | `Spec => KeepsPromise` |

- `PaidAtMostOnce` needs `PayoutInv`: what may still lead to a payment (an open
  handler, the queue, the batch, a `Fail` about to re-queue) counts against the
  bound together with the payments made. The count of payments alone is not
  inductive, since it does not say why the next send is allowed.
- `AttemptsAreBounded` needs `AttemptsInv`, which ties the attempts made to
  `retry_count`, to the copy of it `Fail` holds between its two statements, and
  to the admin retries.
- `ConfirmedOnlyIfSettled` needs `SnapshotInv`: the rows the watcher listed still
  exist, the block it read is not ahead of the chain, and a hash not broadcast yet
  is not on the chain, so acting on old readings is safe here.
- `SentIsVisible` is inductive with the types.
- `PipelineKeepsPromise` maps grants to 1 + retries + ambiguous broadcasts,
  payments to broadcasts and the shown claims to the confirmed ones, and uses the
  first two invariants.

### Intake

For all finite sets of requests (`RequestsAssumption`), all forms
(`FormsAssumption`), limits (`IntakeLimitsAssumption`, 0 for no limit) and lengths
of hour and day (`ClockAssumption`):

| theorem | states |
|---|---|
| `IntakeTypeCorrect` | `Spec => []TypeOK` |
| `KeysAreIdempotent` | `Spec => []IdempotentAnswers` |
| `ChallengesAreUsedOnce` | `Spec => []ChallengeOnce` |
| `DailyBudgetHolds` | `Spec => []DailyBudgetKept` |
| `CampaignBudgetHolds` | `Spec => []CampaignBudgetKept` |
| `InvitesAreWithinUses` | `Spec => []InvitesWithinUses` |
| `CooldownHolds` | `Spec => []CooldownKept` |
| `AddressRateHolds` | `Spec => []AddressRateKept` |
| `EligibleHolds` | `Spec => []EligibleIsLetThrough` |
| `AnnouncedTimesStand` | `Spec => AnnouncedTimeStands` |

The actions are gone through three times: for `TypeOK` with `HandlerInv` (stamps
are taken before the INSERT, and a handler has a claim exactly after it), for
`StepFacts`, and for `LimitFacts`. The last two say what any step may do to keys,
challenges, claims, codes, counters and the clock; each theorem then follows from
them and its own invariant:

- `KeyInv`: one claim has a key, and each answer is in the table;
- `ChallengeInv`: whoever is past a challenge consumed it, alone;
- the budgets are inductive as they stand: the inserted claim found room for
  itself in the same transaction;
- `InviteInv`: the claims that hold a use are at most the uses counted;
- `CooldownInv`: what the check saw is a cooldown old by now, and older than a
  CreatedAt taken later;
- `RateInv`: the counter is at least the number let through.

The last two theorems compare two computations. The status page goes by the last
claim of an address, chosen by its time, while `CreateClaim` looks whether any
claim is too young. They agree because the times of a finite table have a
greatest element (`GreatestOf`, from the well-foundedness of the natural numbers).
An announced time stands because `TimesStay` keeps every claim's time, so that
only a new claim of the address moves the greatest one.

### Application

For any number of candidates, migrations, starts, broadcasts and faults
(`AppAssumption`, `SenderBoundsAssumption`):

| theorem | states |
|---|---|
| `AppTypes` | `Spec => []TypeOK` |
| `AppServes` | `Spec => []ServesWhatItValidated` |
| `AppCloses` | `Spec => []NoUseAfterClose` |
| `AppLeavesNothing` | `Spec => []NothingLeftOpen` |
| `AppReplaces` | `Spec => []ReplacedOnlyAfterReseed` |
| `AppGaps` | `Spec => []GapsExplained` |

- The first four follow from `AppInv`: `StartInv` says what is held at each step
  of `NewWithLogger`, `StopInv` what the goroutines still use while `Close` goes
  on. The properties speak of the ends only and are not inductive.
- The last two follow from `NonceInv`, proved for each step of `Send` and of the
  node first and then carried through the process. `FreshNonces`: since the last seeding the counter is above
  every nonce that was not exposed to it. `NoGapBelow`: every nonce between the
  chain's and the counter's is pending, lost or in hand. Without the second, a gap
  could be there before the transaction that makes it visible.

### Admin

For any admins, objects, claims, and any values of policies and campaign
definitions, from `TablesAssumption` (a row belongs to one table, and no value is
called absent), `CampaignOfAssumption` and `AdminBoundsAssumption`:

| theorem | states |
|---|---|
| `AdminTypeCorrect` | `Spec => []TypeOK` |
| `AdminAudited` | `Spec => []AuditExplainsState` |
| `AdminReplies` | `Spec => []ReplyTellsTheTruth` |
| `AdminOrphans` | `Spec => []OrphansOnlyFromRollback` |
| `AdminOffPayments` | `Spec => AdminKeepsOffPayments` |

The handlers take few kinds of steps: a request is received, quits, goes on,
reads, puts, moves a claim, appends its entry, or fails to and rolls back.
`HandleForms` and its companions show that every action is one of them, and
everything else is proved for the kinds.

- `AdminInv` adds to the types that a request stands at a statement of its own
  operation (`Plan`) and what the row it read first tells it (`Knows`): a creation
  found nothing, an update found something.
- `AuditInv` says of an object that no two requests wrote at once: at most one
  request is between its write and its entry, what it wrote is in force, what it
  would put back is what the log says, and whoever is about to write has read what
  is in force. The property itself says nothing of the row a rollback puts back.
- `ReplyInv` ties the reply to how far the request came.
- `OrphanInv` treats a child about to be inserted as one that is there; otherwise
  the campaign could go between the lookup and the INSERT.

### Screening

For any requests, thresholds, signals of the past, instants and windows, from
`GuardBoundsAssumption` (instants are natural numbers), `FormsAssumption`,
`OutcomesAssumption`, `ThresholdAssumption`, `HeuristicAssumption`,
`WindowAssumption` and `PastAssumption` (a finite past, numbered from 1):

| theorem | states |
|---|---|
| `GuardTypeCorrect` | `Spec => []TypeOK` |
| `GuardLocksOut` | `Spec => []LockedOutStaysOut` |
| `GuardRejectsForDeeds` | `Spec => []RejectedForOwnDeeds` |

- `GuardInv` adds to the types that the ledger is finite, that requests under way
  have numbers of their own, and that a request being evaluated has left at most
  one signal, its captcha's. `Grows` says what a step adds to the ledger: at most
  one signal, of the request, numbered after all others.
- `ScopeInv`: a request past the query of a scope is below its threshold
  (`Below`), and what pruning deleted is out of the window (`PrunedIsPast`). The
  known signals of a request can only become fewer afterwards (`KnownShrinks`),
  since new ones have higher numbers and the window moves on; `TextOrder` says
  that comparing texts errs by less than a second.
- `EvidenceInv`: not only a rejected request, but also one with a score has
  another request's signal against it. `AnotherCounted` finds it: two signals, or
  two values of a column, cannot all be the request's own.

### Network generator

For any nodes, accounts and command lines (`InvocationsAssumption`,
`RoleAssumption`, `NamesAssumption`, `RunBoundsAssumption`):

| theorem | states |
|---|---|
| `NetgenTypeCorrect` | `Spec => []TypeOK` |
| `NetgenNoLostKey` | `Spec => []NoLostKey` |
| `NetgenKeysForever` | `Spec => KeysAreForever` |
| `NetgenConsistent` | `Spec => []NetworkIsConsistent` |
| `NetgenFailures` | `Spec => []FailureIsExplained` |

- `KeyInv`: a key in memory is the one on disk, a key file that is not whole holds
  none, and what Besu was given came from a file. `NoLostKey` alone does not say
  that what a writer takes from memory is on disk.
- `ProgressInv`: a file that the invocation has written already, and was allowed
  to, is right with respect to the keys on disk. It is preserved because no writer
  comes before those whose output it uses (`Due`) and no key changes any more; at
  the end, when nothing is left to do, it is `NetworkIsConsistent`.
- `RunTypes` has the remaining types; the three together are `RunInv`.
- `NetgenFailures` needs both invariants: every step that fails has one of the
  reasons, and the file that made it fail is one the command line asks for.

### Only model-checked

- `NoClaimIsForgotten` and `StopEnds`: fairness and ENABLED are outside the prover;
- the violated sentences, for which a counterexample is the result.

## Not modelled

- The in-memory services and limiter (`faucet/service.go`, parts of `abuse` and
  `admin`): the binary always wires the SQLite ones; the helpers that both share
  are modelled where the persistent service uses them.
- Configuration: it parses the environment once. What the modules need of the
  values is stated as assumptions on their constants.
- Listings, exports, counts and readiness probes: reads on which nothing in the
  program depends.
- Metrics, logging, pages and browser code: no decision depends on them.
- HTTP decoding, headers, CORS and body limits: each is a function of one
  request, with no state.
- Cryptography, RPC client, SQLite and Besu: libraries and programs of others,
  which appear by their outcomes.
- Gas prices, fees, call data and balances: amounts that no control flow
  depends on, but for errors, which are modelled.
- Chain reorganisations: the code does not handle them after a confirmation.
- The command-line tools and the stress test: programs around RPC calls that keep
  no state between runs.
- A runtime policy that changes while claims are under way: `AdminControl` has
  the change, `ClaimIntake` its effect for fixed values, and no property spans both.
