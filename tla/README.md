# Verification of the virtual wallet system

TLA+ models of the multi-tenant wallet service in this repository (NestJS,
TypeORM, PostgreSQL, BullMQ), the TLC runs that check them on small instances,
and TLAPS proofs of the theorems that hold for every instance. `PROJECT.json`
lists the runs, the map from every definition to the lines it models, the
findings, the hazards and the theorems. Source paths below are relative to the
repository.

    tlc -workers 2 -config MCMoney.cfg MCTransactionsService.tla
    tlapm TransactionsServiceLedger.tla

## 1. The system

### Components

| component | state | operations | modelled in |
|---|---|---|---|
| `TransactionsService` money operations (`src/transactions`) | rows of `transactions`; one database transaction per call | `processDeposit`, `processWithdrawal`, `processTransfer`, `createTransaction` | `TransactionsService`, `Ledger` |
| `WalletsService` (`src/wallets`) | `wallets.balance`, `decimal(18,2)` | `create`, `findByTenantIdAndId`, `updateWalletBalance` | `WalletRegistry`, `TransactionsService` |
| `IdempotencyService` (`src/idempotency`) | rows of `idempotency_keys`, unique on `key` | `findByKeyAndTenantId`, `create`, `updateStatus` | `TransactionsService`, `IdempotencyInterceptor` |
| `IdempotencyInterceptor` | a query runner (connection and transaction) per POST | `intercept` | `IdempotencyInterceptor` |
| payment providers (`src/payment-providers`) | none in this process | `getProvider`, `initiateDeposit`, `initiateWithdrawal`, `createVirtualAccount`, `processWebhook` | `TransactionsService` (results), `WalletRegistry` (numbers), `WebhookEvents` (payloads) |
| `WebhooksService`, queue and consumer (`src/webhooks`, `src/queue`) | rows of `webhook_events`; jobs in Redis | `processIncomingWebhook`, `processWebhookPayload`, `replayWebhookEvent` | `WebhookEvents` |
| settlement in `TransactionsService` | status of `transactions`; balances | `processSuccessfulTransaction`, `processFailedTransaction`, `processVirtualAccountDeposit` | `WebhookEvents`, `Settlement`, `ReplayedSettlement` |
| transaction cache | Redis keys per tenant, user and transaction | `findAllByTenantId`, `findByIdAndTenantId` fill it; `createTransaction`, `updateTransactionStatus` delete from it | `TransactionCache` |
| registry (`virtual-accounts`, `wallets`, `users`, `tenants`) | rows with unique columns | the four `create` methods | `WalletRegistry` |
| authentication (`auth`) | none: tokens and API keys stand for rows | `register`, `login`, the two guards | `WalletRegistry` |
| exception filter | none | status of an answer | `WalletRegistry` (`HttpStatus`) |
| bootstrap, Swagger, throttling | none of the application's | wiring | no |

### How they interact

A POST passes the guards, then `IdempotencyInterceptor`, which opens a query
runner of its own and inserts a `PENDING` row for the key, then the controller
and `TransactionsService`, which opens a *second* transaction with
`dataSource.transaction`, looks the key up again, claims it, reads the wallet
over a *third* connection (the repository, not the entity manager), updates the
balance with a single `UPDATE ... RETURNING`, inserts the rows of
`transactions`, calls the provider, marks the key `PROCESSED` and commits. Later
a provider posts a webhook; the event and a job are stored, and a worker settles
the transaction it names. There is no shared memory between requests besides
the connection pool: everything meets in PostgreSQL and Redis. Every write to
`transactions` deletes three cache keys in the middle of its database transaction,
and every read goes through the cache without one. Tenants, users, wallets and
virtual accounts are created by requests of a single insert each; what decides
races between them are unique indexes.

### What is hard

* **Interleaving.** The balance check (`transactions.service.ts:383`) reads a
  committed balance outside the transaction that debits it; any number of
  requests for one wallet are between the two.
* **Locks.** A transfer locks two rows in the order source, destination; an
  insert of a key waits for another transaction with that key; the interceptor
  and its own handler compete for one key on two connections.
* **Failure in the middle.** A provider that refuses, an overflow, a unique
  violation or a deadlock after the debit; a crash after the commit and before
  the answer; a COMMIT whose acknowledgement is lost.
* **Numbers.** DTOs accept any positive number, columns hold cents.
* **Resources.** Each request needs two connections at once, three with the
  interceptor.
* **Queues.** Jobs are enqueued before the commit, delivered at least once, and
  replayed by hand while a worker may hold the same event.

`PROJECT.json` "hazards" lists each at its line, with the properties that watch it or why none does.

### What makes each component correct

* Money operations: no wallet overdrawn; every balance explained by committed
  rows; one movement per key; what a client is told is true; every request is
  answered; refusals are justified.
* Idempotency: a conflict or a replayed response only after the first request
  took effect; no connection or uncommitted row left behind.
* Webhooks: a withdrawal refunded at most once, a bank deposit credited once,
  a failed event stays visible and can be replayed.
* Cache: what is shown was committed at some moment, and is the present state
  once the writes are over.
* Registry: one row per natural key, nothing across a tenant's border, and true
  answers, in every interleaving of creations.

## 2. Plan

Order, most important first; all of it is built.

1. `WalletData`, `Ledger`, `TransactionsService`: the core, its abstract
   specification and their refinement.
2. `TransactionsServiceProofs`, `TransactionsServiceLedger`,
   `TransactionsServiceAnswers`: types, the inductive invariants, no overdraft, the
   refinement, true answers and one movement per key.
3. `IdempotencyInterceptor`: interceptor and service together, composed through
   the abstraction `Ledger` justifies; `IdempotencyInterceptorProofs`.
4. `WebhookEvents`, `Settlement` and `ReplayedSettlement`: events, jobs, retries,
   replays and the three settlement operations, and what they promise without
   replays and with them;
   `WebhookEventsProofs`.
5. `TransactionCache`: the read-through cache, its keys and its deletions before
   the commit; `TransactionCacheProofs`.
6. `WalletRegistry`: registration, login, wallets and virtual accounts;
   `WalletRegistryProofs`.

7. `SumTheorems`: lemmas on sums over finite sets, for the invariants of the first
   and fourth that add up rows.

Left: several workers *and* replays. There neither abstract specification is
implemented (`refund_twice`), and what remains true of money has not been stated.

## 3. The modules

### `WalletData` - rows and arithmetic

The parameters (wallets, keys, requests), the rows of `transactions`, and the
arithmetic of `decimal(18,2)`. Amounts are counted in *ticks*, `Scale` to the
cent; a balance is a number of cents; `PlusAmount` is the expression
`balance + amount` as PostgreSQL stores it: rounded to the nearest cent, halves
away from zero. With `Scale = 1` every amount is a whole number of cents.
`MaxBalance` is the largest value of the column.

### `Ledger` - the promise

Three variables (balances, rows, used keys) and one action, `Post(r, in)`: an
authorised request takes effect at once, under an unused key, only if no balance
leaves `0..MaxBalance`.

### `TransactionsService` - the three operations, statement by statement

| action | code |
|---|---|
| `Submit` | the call; `processTransfer`'s check for equal wallets |
| `Begin` | `dataSource.transaction` takes a connection |
| `FindKey` | `findByKeyAndTenantId` and the two `ConflictException`s |
| `ClaimKey` | `IdempotencyService.create` or the update of a `FAILED` row, with the unique index |
| `ReadWallets` | `findByTenantIdAndId`, ownership, currency and balance checks, over a second connection |
| `Debit`, `Credit` | `updateWalletBalance`, with its check after the `UPDATE` |
| `Record` | `createTransaction`, the provider's call and the status it leads to |
| `Finish` | `updateStatus(PROCESSED)` and the commit |
| `Respond` | the result returned to the controller |
| `DeadlockVictim` | PostgreSQL's deadlock detector |
| `Crash` | the process stops |

State: `balance`, `txns`, `idem` are the committed tables; `owner` and `newest`
are a wallet row's lock and newest version; `newIdem` and `newTxns` are what a
request's open transaction has inserted; `found` is its local variable; `pc` and
`answer` are where it is and what its client was told.

Order of the statements: the three operations share the skeleton, and
`Goto` follows each operation's own order (a deposit records before it credits,
a withdrawal and a transfer debit before they record). Statements between which
nothing another request can see happens are one action.

Database rules in the model (external, relied on by the code): READ COMMITTED; a
row updated by a transaction is locked until it ends; a blocked `UPDATE` resumes
on the newest committed version; an insert of a unique value waits for an
uncommitted row with it; one member of a cycle of waits is rolled back; a
rolled back transaction leaves nothing.

Two deliberate points:

* The code stores the *client's key* where the *generated id* of the key's row
  belongs (`transactions.service.ts:248, 294`). Ids are uuids, so only the
  question "does the id equal some request's key" matters: `ClaimKey` picks any
  id, `NoKey` standing for all ids that are nobody's key. The committing paths
  are those where the id happens to equal the key. The safety
  results are about these; run `key_is_not_an_id` shows the ordinary case.
* `FAILED` statuses are written by the code only on paths that then throw, so
  they are never committed; the branches that read them are kept.

### `IdempotencyInterceptor` - the path of an HTTP request

Each path of `intercept` with its connection: lookup, the three statuses it may
see, insert, handler, `tap`, `catchError`. The service is reduced to what the
interceptor can see of it: one connection (two while it reads the wallet), a
claim on the key, and an end that is all or nothing, which is what the refinement
of `Ledger` shows. Faults: either connection is dropped, a COMMIT's
acknowledgement is lost, the process restarts. `outer = "kept"` is a connection
that nothing will ever release. Requests of one tenant: the key is looked up by key and
tenant, and its unique index ignores the tenant.

### `WebhookEvents` - from a provider's call to a settled transaction

| action | code |
|---|---|
| `Receive`, `StoreEvent`, `LoseEvent` | `processIncomingWebhook`: the job is queued before its transaction commits, or fails to |
| `AskReplay` | `replayWebhookEvent` |
| `Take` | a worker takes a job (`WebhooksConsumer.process`) |
| `Reset` | `replayWebhookEventInternal`'s outer transaction updates the event |
| `ReadEvent` | `processWebhookPayload`: the event's status, the provider's reading of the payload (`Outcome`) and the branch it leads to |
| `ReadTransaction`, `UpdateStatus`, `Refund` | `processSuccessfulTransaction`, `processFailedTransaction` |
| `ReadPayment`, `Credit` | `processVirtualAccountDeposit` |
| `Mark` | `updateWebhookEventStatus(PROCESSED, related)` and the commit |
| `Catch` | the catch block; the rethrow undoes what it writes |
| `Return` | the outer transaction of a replay commits, the job is completed |
| `CommitWithdrawal` | `processWithdrawal` commits the transaction; the provider has its id since before (`transactions.service.ts:419`) |
| `ConnectionLost`, `WorkerStops` | faults: an attempt fails, perhaps after its COMMIT; the queue hands a stopped worker's job on |

State: `txStatus`, `credited`, `balance`, `eventStatus` and `related` are the
committed tables (`credited` holds the events that created a deposit row, which
is that row's identity); `queue`, `at`, `seen` and `linking` are the jobs with
their local variables; `owner` is the lock of each row. What a job has written and
not committed follows from the rows it owns, so it is computed in `Mark`
(`CommittedStatus`). A replay has two database transactions, `Outer` and
`Inner`; the database sees no cycle between them. Among the inner ones there is
none to see: each locks transaction, wallet, event in that order.
`related_transaction_id` is unique: `Mark` waits for an event with the same value that
is being changed, and throws if it keeps it. The job queue is a set: retries with
backoff and several workers reorder jobs anyway. A job has three attempts
(`MaxAttempts`, queue.service.ts:22) and survives one stall (`MaxStalls`,
BullMQ's default). Amounts are whole cents: they come from a `decimal(18,2)`
column, or are rounded the same way in row and balance. `InitialBalance` is what a
wallet holds when the first webhook arrives; `OpeningBalance(w)` is what remains of
it without the modelled transactions, from which `StatementBalance` counts.

### `Settlement` - the promise of the webhooks

Statuses, balances and credited events only: a withdrawal is debited with its
row, then succeeds or is reversed, once, the refund in the same step as
`REVERSED`; a payment is credited with the row that records it. `WebhookEvents`
implements it under its own variables while nothing is replayed; with replays
it does not (`refund_twice`), and the same payment in two events is two credits
in both (`payment_twice`).

### `ReplayedSettlement` - what replays leave of it

`Settlement`'s steps and one more, `Contradict`: a later report replaces a
status that was settled, and moves no money. In return it promises more of
payments: `CreditOnce` credits each one once, in however many events (`recorded`
is mapped to the payments of the credited events). One worker with replays
implements it; each of its steps occurs in run `replay`.

### `TransactionCache` - what clients read

| action | code |
|---|---|
| `Begin`, `Commit`, `Throw` | a caller's `dataSource.transaction` |
| `CreateTransaction`, `UpdateTransactionStatus` | the statement of each |
| `Delete` | their three `cacheManager.del`, one at a time |
| `NextWrite` | the caller's next call of one of them |
| `Get`, `Load`, `Store` | `findAllByTenantId`, `findByIdAndTenantId`: the cache, the repository, `cacheManager.set` |
| `Fail` | any of these statements throws |
| `Expire` | the time to live of `app.module.ts:82` |

A row is its version number, `version` the committed and `newest` the latest one;
`cache` maps a key to nothing or to the view stored there; `past` and `since` are
history. `UserKey` is applied to a user's id by the reader and to a wallet's id by the
writer, as in the code. `RowsOfUser` is what `where.walletId = [ids]` selects.

### `WalletRegistry` - how rows come into being

`Submit` picks any message a client can compose from the tokens and ids there
are. `ApiKeyGuard`, `FindUser`, `SaveUser` are a registration, `Login` a login,
`TokenGuard` the JWT guard before `SaveWallet`, and before `CheckWallet`,
`FindAccount`, `AskProvider`, `SaveAccount`; `SaveTenant` is unguarded. Each action is
one await. `Respond` and `HttpStatus` are the exception filter. The four `...Clash`
operators are the unique indexes; `Stored` is the end of an insert, which the
client may not hear of. The id of a row is the request that made it.

Two conversions decide what is found. TypeORM leaves a condition whose value is
`undefined` out of a query: `FindByEmailAndTenantId` without a tenant is all users
with the e-mail, of which `findOneBy`, having no order, returns any one, so `Login`
chooses; `session` is the user whose token it gives. And a provider's name is
compared in upper case by `getProvider` and as it was sent everywhere else:
`UpperCase` is that function, its domain the names that are sent.

## 4. The runs

| run | cfg | question | result |
|---|---|---|---|
| `money` | `MCMoney` | three concurrent withdrawals, transfers and deposits over three wallets and two keys, with provider failures, overflow, deadlocks and crashes | every safety property and the refinement hold (65k states) |
| `improper` | `MCImproper` | two requests drawn from proper and improper bodies (foreign wallet, currency, tenant, provider, same wallet twice, another tenant's key) | `IInv`, `AInv` and the refinement hold, and every request is answered (28k states) |
| `interceptor` | `MCInterceptor` | keys, connections, faults and restarts together | the four invariants and the inductive one hold (223k states) |
| `settlement` | `MCSettlement` | two workers, two events drawn from matching, contradictory, late, rejected and ignored reports, one fault | `Settlement` is implemented, the first report decides, statuses explain balances, completed jobs did their work, every job ends; `SInv` holds (246k states) |
| `replay` | `MCReplay` | one worker, two events and a replay of each, one fault | nothing is refunded or credited twice; `ReplayedSettlement` is implemented; `RefundInv` holds (486k states) |
| `cache` | `MCCache` | a settlement and a deposit write three statuses and a row while two clients read lists and the new row | only committed snapshots are shown, new rows are found, older entries deleted, stale ones do not stay; `IInv` holds (83k states) |
| `registry` | `MCRegistry` | any three requests for tenants, users, wallets, virtual accounts and logins, one fault | answers are true, tenants isolated, conflicts real, known credentials work where the tenant is named; `IInv` holds (1.30M states) |
| `refund_twice` | `MCRefundTwice` | the same with two workers | violated: a replay in the middle of another worker's settlement |
| `payment_twice` | `MCPaymentTwice` | is a payment into a virtual account credited once by two workers? | violated |
| `key_is_not_an_id` | `MCKeyIsNotAnId` | does any unique key do? | violated: only a key equal to the generated row id is accepted |
| `half_cent` | `MCHalfCent` | are books balanced for every accepted amount? | violated: half a cent is created |
| `self_deadlock` | `MCSelfDeadlock` | does a request with a fresh key get an answer? | violated: it waits for its own interceptor |

### Bounds and why they are enough

* Three requests: a deadlock needs two, a victim and an innocent bystander
  three; a copy of a key, its competitor for the money and a retry fit too.
  `improper` uses two, because a refused request interacts with others only
  through its locks and key, which two requests show.
* Three wallets, two owners, amounts 1 to 3, `MaxBalance = 3`: two requests can
  each be affordable and together not; a credit can overflow; opposite transfers
  and a chain of transfers exist.
* Two keys: copies of one key and an unrelated one.
* Four connections in `money`: one more than requests, the least
  with which the second connection of `ReadWallets` is always obtainable. With
  as many requests as connections all of them wait for a second one: listed as
  a hazard. `improper` has three for two requests, and two requests are enough for
  two transfers to wait for each other, which is what its liveness is about.
* Each request is sent once; a retry is another request with the same key.
* `Symmetry` (in `money`) permutes requests: bodies are chosen freely
  in `Init`, so renaming requests maps behaviours to behaviours. Runs with
  liveness use no symmetry.
* The interceptor: three requests with one key (one that moves money, one that is
  under way, one that meets either), one with another key, one without the
  header; a pool of five, which replays and waiting handlers can empty.
* Webhooks: two events are two copies, or two contradictions, of one report, and
  each with its replay; two workers are what it takes to interleave settlements;
  one withdrawal (not yet committed at first), one deposit and one account
  payment share a wallet, so that all settlements compete for its row. `MaxFaults`
  bounds the faults of a behaviour to one: a second one only repeats the roll-back
  and retry of the first, and three ordinary failures exhaust the attempts as well.
* Cache: two writers and two readers are the least with which one reader's entry
  survives another's and a deletion falls between a reader's load and store; two
  rows distinguish lists from rows; entries of three keys (tenant, user, new row)
  are asked for.
* Registry: three requests are two that race and one that prepares or follows (a
  registration, then a wallet, then its account); two tenants with a user
  each, the e-mail of one of whom may be registered in the other tenant; one wallet;
  two passwords, currencies, random numbers; a provider of virtual accounts in the two
  spellings of the documents, and one without them. An id no row has is sent neither
  as a wallet's nor as a login's tenant: for the code the first is the same as another
  tenant's wallet, the second as a tenant without the e-mail.

### Fairness

`FairSpec` of `TransactionsService` is weak fairness of `Step(r)` for each
request: Node's event loop resumes every promise whose statement has returned,
and PostgreSQL executes every statement that is not waiting and breaks deadlocks
after `deadlock_timeout`. `Submit` (a client) and `Crash` are not fair. `Quiet`
lets a finished system stutter so that TLC's deadlock check stays meaningful.
`FairSpec` of `IdempotencyInterceptor` assumes in addition that no connection
fails: the hang it shows needs no failure.
`FairSpec` of `WebhookEvents` is weak fairness of every job's `Work`: BullMQ keeps
handing out jobs and the statements of an attempt return unless they wait for a lock.
Providers, operators and faults are not fair.
`FairSpec` of `TransactionCache` is weak fairness of a reader's `Load` and `Store`
and of each key's `Expire` (entries have a time to live); no write or read has
to begin. `CacheConverges` needs the expiry: deletions alone do not achieve it.
`MCInterceptor` and `MCSelfDeadlock` turn the deadlock check off because the code
really may stop there (finding `self_deadlock`); `MCReplay` and `MCRefundTwice` do
because a replay may wait for itself (section 6).

## 5. What is proved

Each theorem holds for every value of the constants that satisfies the named
`ASSUME`s of its modules: any number of requests, wallets, keys, events, workers,
readers and faults. TLC checks every inductive invariant, of which the type invariant is
a part, on a run, and evaluates every assumption.

| module | theorem | statement |
|---|---|---|
| `TransactionsServiceProofs` | `TypeCorrect` | `Spec => []TypeOK` |
| `TransactionsServiceLedger` | `Invariance` | `Spec => []IInv` |
| | `NeverOverdrawn` | `Spec => []NoOverdraft` |
| | `Refinement` | `Spec => ImplementsLedger` |
| `TransactionsServiceAnswers` | `AnswersInvariance` | `Spec => [](IInv /\ AInv)` |
| | `AnswersTrue`, `ConflictsFinal`, `KeysMoveOnce` | `AnswersAreTrue`, `ConflictMeansProcessed`, `OneMovementPerKey` |
| | `RefusalsJustified` | `Spec => RefusalsAreJustified`, an action property |
| | `BooksAlwaysBalance` | `Spec => []BooksBalance`, under `NoHalfCents` |
| `IdempotencyInterceptorProofs` | `InterceptorInvariance`, `InterceptorTypes` | `Spec => []IInv`, `TypeOK` |
| | `PostedOnce`, `RefusalsTrue`, `ReleasesClean`, `ReplaysKeep` | `KeyPostedOnce`, `RefusalsFollowPosting`, `NothingUncommittedReleased`, `OnlyReplaysKeepConnections` |
| `WebhookEventsProofs` | `JobInvariance`, `WebhookTypes` | `Spec => []JInv`, `TypeOK`: in every behaviour |
| | `SettlementInvariance` | `SInv`, under `SettlementConditions` |
| | `CompletionsTrue`, `EffectsLast`, `FirstReport` | `CompletedMeansProcessed`, `ProcessedEventsTookEffect`, `FirstReportDecides`, under the same |
| | `SettlementRefinement` | `Spec => ImplementsSettlement`, under the same |
| | `StatementsExplain`, `SettlementRefunds` | `StatementExplainsBalance`, `RefundsNeverExceedDebits`, under the same |
| | `SingleWorkerInvariance`, `CreditedOnce` | `RInv`, `PaymentCreditedOnce`, under `SingleWorker` |
| | `ReplayRefinement` | `Spec => ImplementsReplayedSettlement`, under the same |
| | `RefundInvariance`, `RefundsBounded` | `RefundInv`, `RefundsNeverExceedDebits`, under the same |
| `TransactionCacheProofs` | `CacheInvariance`, `CacheTypes` | `Spec => []IInv`, `TypeOK` |
| | `SnapshotsOnly`, `CommittedRowsFound`, `CommitsDeleteOlder` | `OnlySnapshotsAreShown`, `NewRowsAreFound`, `OlderEntriesAreDeleted` |
| `WalletRegistryProofs` | `RegistryInvariance`, `RegistryTypes` | `Spec => []IInv`, `TypeOK` |
| | `TenantIsolation` | `TenantsAreIsolated` |
| | `CreationsTrue`, `ConflictsJustified`, `DuplicatesAreBadRequests`, `LoginsWork` | `AnswersAreTrue`, `ConflictsHaveACause`, `OnlyRacesGetConflict`, `KnownCredentialsWork` |

### The money operations

Assumptions: `NoKey` is no key, `NoRequest` no request, `Scale` positive, opening
balances in range, bodies as the DTOs validate them.

`NoOverdraft` is not inductive: a commit publishes `newest`, so one has to know
where it comes from. `IInv` says so in five parts: both versions of every balance
are in range; the rows a request has locked follow from the statement it is at;
a locked row's newest version is the committed one plus exactly its owner's
movement; a claimed key is in no committed row and no other request's hands; a
request past the checks passed them. The proof that a step keeps it has one step
per action. The refinement maps `usedKeys` to the keys of committed rows: the
commit in `Finish` is `Post`, with `NewestIsExplained` giving the balances,
`KeysAreClaimed` the unused key and `RequestsAreChecked` the authorisation; every
other step leaves the three variables alone. Rounding enters only through
`PlusAmount`, of which the lemmas need that it is an integer and that whole cents
are kept, so the result holds for fractions of a cent too: each post is
explained, though `half_cent` shows the two sides of a transfer need not agree.

What clients are told needs `AInv` besides: a request leaves no row before it
commits and all of them from then on; a row carries a key exactly if the key is
used; no two rows carry the same one. `OneMovementPerKey` follows, because sets
with at most one member need no counting.

`BooksBalance` is inductive together with these: a step leaves balances and rows
alone or is `Post` (`StillOrPosts`, from the refinement), and a post inserts, for
each wallet it touches, one new row that says what it moves there
(`RowSaysMovement`). That a row and its wallet round alike is arithmetic
(`CreditedExactly`, `DebitedExactly`): a deposit rounds half a cent up in both,
a debit does not, hence `NoHalfCents`, which asks of the bodies only that no
withdrawal or transfer is of a number of ticks that ends in half a cent. Without it
the theorem is false: run `half_cent`.

### Sums

`SumFunctionOnSet(f, S)`, of the community modules, is the value at `S` of a
function defined by recursion over the subsets of `S`. `SumTheorems` shows that this
function exists and that its value does not depend on the order of summation, and
from that what invariants need: a sum with one member more, one member less, one
term changed, or all terms smaller. The induction is by smallest
counterexample, which is first order: the sizes of the subsets for which a claim
fails are a set of numbers, and a non-empty one has a least member
(`SmallestNumber`, from the well-foundedness of `<` on `Nat`).

### The interceptor

`KeyOf` maps requests to keys or `NoKey`; nothing else is assumed. `IInv`: a service
at work has the only claim on its key, made when the key was unused, and its own
interceptor has none; the only status ever committed is `PROCESSED`, by the one request
that posted; a connection is open only where `intercept` still needs it. So
`OnlyReplaysKeepConnections` says which connections the missing `release` loses:
never a first request's.

### Webhooks

Assumptions: rows of different tables have different ids, `NoRow` is none of them,
deposits start as `SUCCESS` and withdrawals do not, amounts are positive.

*Always*, replays included: `JInv`, the types and the order of a job's statements.

*Under `SettlementConditions`*, which `MCSettlement` satisfies: nothing is replayed,
and no payload reports a deposit as failed. Both are needed: `refund_twice` and
`NeedsRefund` (section 6) show what happens otherwise. `SInv` says that an event has
one job and stays unprocessed, unrelated and uncredited until it is marked; that a
row is locked only by a job that is going to change it, and a job at `Mark` has
locked what it changes; and that a settled withdrawal is related to the event that
settled it. The argument, in lemma `PendingUntilMarked`: a job may have read a
withdrawal as `PENDING` and found it settled by another event since. It then locks and
would overwrite it; but the other event holds the unique
`related_transaction_id`, so `Mark` throws. If `Mark` succeeds the withdrawal is still
`PENDING`. Every settlement is thus one step of `Settlement` (`MarkImplements`), and the
first report decides. Each step of `Settlement` moves in the balance what it moves
in the statement: one transaction's term changes, or one payment is added
(`StatementStep`). That no refund exceeds its debit follows, term by term
(`BoundIsMonotone`). These two assume that `Transactions` is finite, as a table is.

*Under `SingleWorker`* (one worker, a finite set of events), which `MCReplay`
satisfies: at most one job is under way, so the row that `Credit` inserts is of a
payment that no row has. Replays are included. `payment_twice` is the same with two
workers. For refunds `RInv` says besides that the status the job has read is the
committed one until it commits, that a status it changes is not already what is
reported, that it locks only what it changes, and the wallet exactly if it moves
money; and that only withdrawals are ever `PENDING`. So each commit is a step of
`ReplayedSettlement` (`MarkReplays`, `ReplayRefinement`).
`RefundsNeverExceedDebits` is not inductive; that the debits of *all* pending
withdrawals are missing from the balance (`PendingDebitsAreMissing`) is: a refund
takes one of them off that list (`RefundStep`, from `MarkReplays`), and no replay
puts one back. Under `SettlementConditions` the same bound holds for any number of workers;
`refund_twice` is what two workers and a replay make of it.

### The cache

Assumptions: versions are numbers, rows of users are transactions, a writer writes
something, and only keys a reader can form are asked for. `IInv`: whatever is stored or about to be
stored is the view of one of the committed states; an entry that was there when a
writer began has survived only deletions the writer has still to make. `past` and
`since` exist for this.

### The registry

Assumptions: the first tables have their columns, keep their unique indexes and
tenants, new ids are new, and no tenant has `Nothing` for its id. `IInv` adds to the properties that what a request has
checked (its tenant, its wallet, an e-mail nobody known has) still holds when it
inserts: rows are never deleted or changed, and lists of known users are those of
an earlier table.

### Only model-checked

* Liveness, out of the prover's reach: `EveryRequestAnswered`, `JobsEnd`,
  `CacheConverges`.
* The five violations.

## 6. Findings

Each of these is a run with a counterexample and is quoted in `PROJECT.json`.

1. The idempotency key is used as the id of its row: no operation with an ordinary
   key succeeds (`key_is_not_an_id`).
2. The interceptor and its own handler compete for the key's row: a first
   request hangs (`self_deadlock`).
3. Amounts below a cent round differently on the sides of a transfer
   (`half_cent`).
4. Two workers credit one account payment twice (`payment_twice`).
5. A replay in the middle of another worker's settlement makes a second refund
   possible (`refund_twice`).

Further disagreements are visible in the models' actions and follow from one or two
steps, so no run is spent on them:

* `FindKey`, `ClaimKey`: the row of a key is inserted as `PENDING` and becomes
  `PROCESSED` in one database transaction, so `PENDING` is never committed and the throw of
  `transactions.service.ts:203-206` ("currently being processed") is never reached. A
  copy of a request that is under way passes the look-up and waits for the first one's
  end: it is a 201 if that is rolled back, and a 409 if it is committed.
  `transactions.controller.ts:58, 98, 138` say of the 409 "already processed or in
  progress"; only the first half is true, and `ConflictMeansProcessed` is that half.
* `FindByEmailAndTenantId`, `Login`: a login without a `tenantId`, which is the body
  `README.md:155-165` shows, looks the user up with `tenantId: undefined`
  (`auth.service.ts:59`, `users.service.ts:62`), a condition that TypeORM drops. The
  password is compared with that of some user with the e-mail, in any tenant: who is
  registered is told 401 if another tenant's user is returned, or is given the token of
  that user if the passwords are equal. `KnownCredentialsWork` says which logins can
  fail: those that name no tenant and share their e-mail.
* `AskProvider`, `FindByAccountNumberAndProvider`: `getProvider` takes a provider's name in
  any case (`payment-providers.service.ts:26`), the account stores it as it was sent
  (`virtual-accounts.service.ts:95`) and a webhook compares it exactly with its URL's
  (`webhooks.service.ts:209-213`). An account opened with 'PAYSTACK', the example of
  `create-virtual-account.dto.ts:39`, is not found by a payment announced to
  `/webhooks/paystack` (`webhooks.controller.ts:35`). `AnswersAreTrue` promises an account
  under the name it was opened with only.
* `CatchError`: `catchError`'s selector is async (`idempotency.interceptor.ts:83`),
  so an exception of the service reaches the client as a 201 with an empty body.
* `Lookup`: answering with a stored response, or with a conflict on a pending key,
  never releases the interceptor's connection (`idempotency.interceptor.ts:45-64`); the second
  rollback of the pending case throws and hides the 409.
* `Catch`: an event is never `FAILED`, because the rethrow rolls the status back
  (`webhooks.service.ts:259`).
* `Mark`: the second report of a settled transaction fails at every attempt on the
  unique related transaction, though `transactions.service.ts:744` calls it
  idempotent.
* `Reset`, `ReadEvent`, `Mark`: the replay of a pending event waits for its own
  outer transaction; the replay of a processed one leaves it `PENDING` and detached,
  and a contradictory report may then change a settled withdrawal's status without
  its balance.
* `NeedsRefund`: a deposit that was credited and is then reported as failed becomes
  `FAILED` and keeps its money (`transactions.service.ts:853`), though line 793 says
  "reverses wallet balance if necessary".
* `Delete`, `Store`: an entry stored by a slow reader, or between a deletion and its
  commit, is stale until it expires; a user's list is deleted under the wallet's id
  (`transactions.service.ts:88` against 635), so for it expiry is all there is.
  (`CacheConverges` is what remains true.) With TypeORM 0.3 an array without `In()`
  is compared as one value, so the filter of line 648 then selects nothing.
* `SaveUser`: who loses a race of registrations is told 409, and 400 otherwise;
  `auth.controller.ts:39-42` documents the 400 only.
* `TokenGuard`: a missing token throws a plain `Error`, a 500
  (`jwt-auth.guard.ts:25`); the controllers document a 401.
* `SaveAccount`: a second account of a wallet, with another provider or in a race,
  passes the check of `virtual-accounts.service.ts:55` and fails on the unique
  wallet, with a message about the account number; the provider has opened an
  account that nothing records.
* `Stored`: a connection lost after the insert is a 400, though the row is there.
* `create-virtual-account.dto.ts:30`: `@IsCurrency` checks for an amount of money, not for
  a code, so a body with "NGN" is refused before the service; the model starts
  at the service.
* `webhooks.controller.ts:72,111`: the `req` parameters lack `@Req()`, so both
  endpoints throw before they reach the service; the model starts at the service.

The models for findings 1 and 2 are separate on purpose. `TransactionsService` is
checked without the interceptor, as its own callers and unit tests use it, so
that a defect on one layer does not empty the other of behaviour;
`IdempotencyInterceptor` shows what the layers do together.

## 7. Not modelled

* Loss of one database connection inside `TransactionsService` (only the whole
  process stops there); `IdempotencyInterceptor` has it.
* Isolation levels other than PostgreSQL's default, which the code relies on.
* Swagger, logging, the bodies of errors, throttling: no state of the application.
  Signing tokens and hashing passwords: libraries, taken to be sound. Tokens do not
  expire while a request is made; an expired one is like none.
* DTO validation in `WalletRegistry`: bodies are those that pass it. `register` and
  `login` take unvalidated bodies; of these the model has the login without a tenant,
  but none without an e-mail (whose condition would be left out of the query
  likewise) or a password.
* A webhook without the provider's transaction id: its condition would be left out of
  the look-up of `transactions.service.ts:887`, so that any deposit of this tenant and
  provider is taken for the payment. `ExistingRows` has payloads with an id only.
* Three hazards are described in `PROJECT.json` without a property: a pool that is
  exhausted by requests waiting for their second connection (`PoolSize` is one more than
  the requests, so that `EveryRequestAnswered` speaks of locks), a replay that waits
  for itself (`JobsEnd` is checked without replays), and deposits reported as failed
  (excluded from `settlement` by its payloads). That a service's exception reaches the
  client as a 201 is in section 6 only; no property speaks of the interceptor's answer
  there.
* A cache store without a shared Redis: the installed cache manager may ignore
  `store` in `app.module.ts:78` and keep entries in the process; with one process this is
  the same, with several each would be a cache of its own that only expiry empties.
* Deletion of rows: no code deletes tenants, users, wallets or accounts.
* The pool in `WebhookEvents` (a replay needs two connections, an account payment
  three): `TransactionsService` and `IdempotencyInterceptor` show its effect.
* The providers' HTTP clients: in this repository they are simulations that
  return fixed results; the models let them return any of those results.
