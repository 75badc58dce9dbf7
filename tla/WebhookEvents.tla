---------------------------- MODULE WebhookEvents ----------------------------
(***************************************************************************)
(* WebhooksService, its queue and its workers, and the three operations of *)
(* TransactionsService that settle what a webhook reports.                 *)
(*                                                                         *)
(* A provider's call stores a row of webhook_events and a job.  A worker   *)
(* takes the job, and one database transaction settles the transaction the *)
(* event names and marks the event PROCESSED.  A job that throws is tried  *)
(* again.  A replay wraps the same processing in a second, outer database  *)
(* transaction on a second connection.                                     *)
(*                                                                         *)
(* As in TransactionsService, a step is one statement; the uncommitted     *)
(* writes of a job follow from the rows it has locked.                     *)
(***************************************************************************)
EXTENDS Integers, FiniteSets, FiniteSetsExt

CONSTANTS
  Events,          \* calls of the webhook endpoint, copies of a call included
  Payloads,        \* what the providers may send
  Transactions,    \* rows of transactions the processOperations have created
  TypeOf,          \* their types
  InitialStatus,   \* their statuses at first, "absent" before their commit
  Payments,        \* payments into virtual accounts, by the provider's id
  Wallets,
  WalletOf,        \* the wallet of each transaction and payment
  AmountOf,        \* and its amount, in cents
  InitialBalance,  \* what each wallet holds at first
  Replayable,      \* events for which a replay may be asked, once each
  Workers,         \* worker processes, each taking one job at a time
  MaxFaults,       \* bound on the faults of a behaviour
  NoRow            \* SQL NULL, and undefined

MaxAttempts == 3   \* attempts of a job
MaxStalls == 1     \* times a job survives the end of its worker

ASSUME TypeOfAssumption == TypeOf \in [Transactions -> {"DEPOSIT", "WITHDRAWAL"}]
ASSUME WalletOfAssumption == WalletOf \in [Transactions \cup Payments -> Wallets]
ASSUME AmountOfAssumption ==
  AmountOf \in [Transactions \cup Payments -> Nat \ {0}]
ASSUME InitialBalanceAssumption == InitialBalance \in [Wallets -> Int]
ASSUME MaxFaultsAssumption == MaxFaults \in Nat

(***************************************************************************)
(* processDeposit inserts its row with its money, as SUCCESS;              *)
(* processWithdrawal inserts one that the provider has still to settle.    *)
(***************************************************************************)
ASSUME InitialStatusAssumption ==
  /\ InitialStatus \in [Transactions -> {"absent", "PENDING", "SUCCESS"}]
  /\ \A t \in Transactions : InitialStatus[t] = "SUCCESS" <=> TypeOf[t] = "DEPOSIT"

(***************************************************************************)
(* Ids of rows of different tables are different.                          *)
(***************************************************************************)
ASSUME IdsAssumption ==
  /\ Events \cap Transactions = {} /\ Events \cap Wallets = {}
  /\ Transactions \cap Wallets = {}
  /\ NoRow \notin Events \cup Transactions

Jobs == [kind : {"process", "replay"}, event : Events]

VARIABLES
  txStatus,     \* committed status of each transaction
  credited,     \* events that have created a deposit row, in committed rows
  balance,      \* committed balance of each wallet
  eventStatus,  \* committed status of each event
  related,      \* its committed related_transaction_id
  receiving,    \* events whose job is queued and whose row is not committed
  queue,        \* state and history of each job
  at,           \* the statement each job is at
  seen,         \* the status it has read of its transaction
  linking,      \* its local variable relatedTransactionId
  owner,        \* the database transaction that has locked a row
  payload,      \* what each event was sent with
  faults        \* faults so far

rows == <<txStatus, credited, balance, eventStatus, related>>
locals == <<seen, linking>>
vars == <<txStatus, credited, balance, eventStatus, related, receiving, queue,
          at, seen, linking, owner, payload, faults>>

(***************************************************************************)
(* What the three providers' processWebhook methods make of an event.  A   *)
(* payload's provider is the one the URL's name stands for, in any case;   *)
(* an account is known if it is stored under exactly the URL's name.       *)
(***************************************************************************)
Paystack ==
  [success |-> {"charge.success", "transfer.success"},
   failed  |-> {"charge.failed", "transfer.failed"},
   payment |-> {"dedicatedaccount.assign_success"}]

Flutterwave ==
  [success |-> {"charge.completed", "transfer.completed"},
   failed  |-> {"charge.failed", "transfer.failed"},
   payment |-> {"account_number.created", "account_number.payment"}]

Stripe ==
  [success |-> {"payment_intent.succeeded", "charge.succeeded",
                "payout.succeeded"},
   failed  |-> {"payment_intent.payment_failed", "charge.failed",
                "payout.failed"},
   payment |-> {}]

Provider == [paystack |-> Paystack, flutterwave |-> Flutterwave,
             stripe |-> Stripe]

AccountIsKnown(p) == p.subject \in Payments

Outcome(p) ==
  IF p.provider \notin DOMAIN Provider
    THEN "rejected"
    ELSE LET events == Provider[p.provider]
         IN  CASE p.event \in events.success /\ p.subject \in Transactions -> "success"
               [] p.event \in events.failed /\ p.subject \in Transactions -> "failed"
               [] p.event \in events.payment /\ AccountIsKnown(p) -> "payment"
               [] p.event \in events.payment /\ ~ AccountIsKnown(p) -> "rejected"
               [] OTHER -> "ignored"

OutcomeOf(j) == Outcome(payload[j.event])
Subject(j) == payload[j.event].subject

(***************************************************************************)
(* Database transactions: every job has one, a replay has one around it.   *)
(***************************************************************************)
Inner(j) == <<j, "inner">>
Outer(j) == <<j, "outer">>

Rows == Events \cup Transactions \cup Wallets
Owners == {NoRow} \cup (Jobs \X {"inner", "outer"})

ASSUME NoRowAssumption == NoRow \notin Jobs \X {"inner", "outer"}

Lock(j, row) == owner' = [owner EXCEPT ![row] = Inner(j)]
IsFree(row) == owner[row] = NoRow

Unlocked(j) == [row \in Rows |->
                  IF owner[row] \in {Inner(j), Outer(j)} THEN NoRow
                                                         ELSE owner[row]]

Goto(j, step) == at' = [at EXCEPT ![j] = step]

-----------------------------------------------------------------------------
(***************************************************************************)
(* What a wallet should hold: each transaction counts as its status says.  *)
(***************************************************************************)
SignedAs(t, status) ==
  IF TypeOf[t] = "WITHDRAWAL"
    THEN IF status \in {"PENDING", "SUCCESS"} THEN -AmountOf[t] ELSE 0
    ELSE IF status = "SUCCESS" THEN AmountOf[t] ELSE 0

Signed(t) == SignedAs(t, txStatus[t])
SignedAtFirst(t) == SignedAs(t, InitialStatus[t])

AmountCredited(e) == AmountOf[payload[e].subject]

TransactionsOf(w) == {t \in Transactions : WalletOf[t] = w}
DepositRows(w) == {e \in credited : WalletOf[payload[e].subject] = w}

OpeningBalance(w) ==     \* without any of them
  InitialBalance[w]
    - SumFunctionOnSet([t \in Transactions |-> SignedAtFirst(t)], TransactionsOf(w))

PaymentsCredited(w) ==
  SumFunctionOnSet([e \in credited |-> AmountCredited(e)], DepositRows(w))

StatementBalance(w) ==
  OpeningBalance(w)
    + SumFunctionOnSet([t \in Transactions |-> Signed(t)], TransactionsOf(w))
    + PaymentsCredited(w)

Init ==
  /\ txStatus = InitialStatus
  /\ credited = {}
  /\ payload \in [Events -> Payloads]
  /\ balance = InitialBalance
  /\ eventStatus = [e \in Events |-> "absent"]
  /\ related = [e \in Events |-> NoRow]
  /\ receiving = {}
  /\ queue = [j \in Jobs |-> [state |-> "none", failures |-> 0, stalls |-> 0]]
  /\ at = [j \in Jobs |-> "off"]
  /\ seen = [j \in Jobs |-> "none"]
  /\ linking = [j \in Jobs |-> NoRow]
  /\ owner = [row \in Rows |-> NoRow]
  /\ faults = 0

-----------------------------------------------------------------------------
(***************************************************************************)
(* processWithdrawal commits a transaction whose id the provider already   *)
(* knows.                                                                  *)
(***************************************************************************)
CommitWithdrawal(t) ==
  /\ txStatus[t] = "absent"
  /\ IsFree(WalletOf[t])
  /\ txStatus' = [txStatus EXCEPT ![t] = "PENDING"]
  /\ balance' = [balance EXCEPT ![WalletOf[t]] = @ - AmountOf[t]]
  /\ UNCHANGED <<credited, eventStatus, related, receiving, queue, at, locals,
                 owner, payload, faults>>

CountFault == faults < MaxFaults /\ faults' = faults + 1

(***************************************************************************)
(* processIncomingWebhook inserts the event and queues the job, then       *)
(* commits, or fails to.                                                   *)
(***************************************************************************)
Process(e) == [kind |-> "process", event |-> e]
Replay(e) == [kind |-> "replay", event |-> e]

AddJob(j) == queue' = [queue EXCEPT ![j].state = "waiting"]

Receive(e) ==
  /\ queue[Process(e)].state = "none"
  /\ AddJob(Process(e))
  /\ receiving' = receiving \cup {e}
  /\ UNCHANGED <<rows, at, locals, owner, payload, faults>>

StoreEvent(e) ==
  /\ e \in receiving
  /\ eventStatus' = [eventStatus EXCEPT ![e] = "PENDING"]
  /\ receiving' = receiving \ {e}
  /\ UNCHANGED <<txStatus, credited, balance, related, queue, at, locals,
                 owner, payload, faults>>

LoseEvent(e) ==
  /\ e \in receiving
  /\ CountFault
  /\ receiving' = receiving \ {e}
  /\ UNCHANGED <<rows, queue, at, locals, owner, payload>>

(***************************************************************************)
(* replayWebhookEvent queues a replay of an event that exists.             *)
(***************************************************************************)
AskReplay(e) ==
  /\ e \in Replayable
  /\ eventStatus[e] # "absent"
  /\ queue[Replay(e)].state = "none"
  /\ AddJob(Replay(e))
  /\ UNCHANGED <<rows, receiving, at, locals, owner, payload, faults>>

-----------------------------------------------------------------------------
(***************************************************************************)
(* A worker takes a job; the ends of an attempt.  A throw rolls back both  *)
(* database transactions of the job.                                       *)
(***************************************************************************)
Active == {j \in Jobs : queue[j].state = "active"}

Take(j) ==
  /\ queue[j].state = "waiting"
  /\ Cardinality(Active) < Workers
  /\ queue' = [queue EXCEPT ![j].state = "active"]
  /\ Goto(j, IF j.kind = "replay" THEN "reset" ELSE "readEvent")
  /\ UNCHANGED <<rows, receiving, locals, owner, payload, faults>>

Leave(j) ==
  /\ Goto(j, "off")
  /\ seen' = [seen EXCEPT ![j] = "none"]
  /\ linking' = [linking EXCEPT ![j] = NoRow]
  /\ owner' = Unlocked(j)

ThrowForEver(j) ==                  \* mutant: no limit of attempts
  /\ Leave(j)
  /\ queue' = [queue EXCEPT ![j].state = "waiting", ![j].failures = @ + 1]
  /\ UNCHANGED <<rows, receiving, payload>>

ThrowKeepingLocks(j) ==             \* mutant: the transaction is left open
  /\ Goto(j, "off")
  /\ seen' = [seen EXCEPT ![j] = "none"]
  /\ linking' = [linking EXCEPT ![j] = NoRow]
  /\ queue' = [queue EXCEPT
       ![j].state = IF queue[j].failures + 1 < MaxAttempts THEN "waiting" ELSE "failed",
       ![j].failures = @ + 1]
  /\ UNCHANGED <<rows, receiving, owner, payload>>

Throw(j) ==
  /\ Leave(j)
  /\ queue' = [queue EXCEPT
       ![j].state = IF queue[j].failures + 1 < MaxAttempts THEN "waiting" ELSE "failed",
       ![j].failures = @ + 1]
  /\ UNCHANGED <<rows, receiving, payload>>

(***************************************************************************)
(* replayWebhookEventInternal: the outer transaction sets the event        *)
(* PENDING, with no related transaction, and stays open.                   *)
(***************************************************************************)
Reset(j) ==
  /\ at[j] = "reset"
  /\ IF eventStatus[j.event] = "absent"
       THEN Throw(j) /\ UNCHANGED faults
       ELSE /\ IsFree(j.event)
            /\ owner' = [owner EXCEPT ![j.event] = Outer(j)]
            /\ Goto(j, "readEvent")
            /\ UNCHANGED <<rows, receiving, queue, locals, payload, faults>>

(***************************************************************************)
(* processWebhookPayload reads the event, on its own connection: of a      *)
(* replay it sees the status before the reset.  A skipped event and an     *)
(* event no branch handles differ: the second is marked PROCESSED.         *)
(***************************************************************************)
Branch ==
  [rejected |-> "catch", ignored |-> "mark", payment |-> "readPayment",
   success |-> "readTransaction", failed |-> "readTransaction"]

ReadEvent(j) ==
  /\ at[j] = "readEvent"
  /\ IF eventStatus[j.event] = "absent"
       THEN Throw(j) /\ UNCHANGED faults
     ELSE
       /\ Goto(j, IF eventStatus[j.event] \in {"PROCESSED", "FAILED"}
                    THEN "return" ELSE Branch[OutcomeOf(j)])
       /\ UNCHANGED <<rows, receiving, queue, locals, owner, payload, faults>>

(***************************************************************************)
(* processSuccessfulTransaction and processFailedTransaction: read the     *)
(* transaction, return if it is settled already, else update its status;   *)
(* a failed withdrawal that was PENDING when it was read is refunded.      *)
(***************************************************************************)
AlreadySettled(j) ==
  \/ OutcomeOf(j) = "success" /\ txStatus[Subject(j)] = "SUCCESS"
  \/ OutcomeOf(j) = "failed" /\ txStatus[Subject(j)] \in {"FAILED", "REVERSED"}

ReadTransaction(j) ==
  /\ at[j] = "readTransaction"
  /\ linking' = [linking EXCEPT ![j] = Subject(j)]
  /\ seen' = [seen EXCEPT ![j] = txStatus[Subject(j)]]
  /\ Goto(j, IF txStatus[Subject(j)] = "absent" THEN "catch"
             ELSE IF AlreadySettled(j) THEN "mark" ELSE "updateStatus")
  /\ UNCHANGED <<rows, receiving, queue, owner, payload, faults>>

RefundsAnyWithdrawal(j) ==          \* mutant: whatever its status was
  OutcomeOf(j) = "failed" /\ TypeOf[Subject(j)] = "WITHDRAWAL"

NeedsRefund(j) ==
  /\ OutcomeOf(j) = "failed"
  /\ TypeOf[Subject(j)] = "WITHDRAWAL"
  /\ seen[j] = "PENDING"

UpdateStatus(j) ==
  /\ at[j] = "updateStatus"
  /\ IsFree(Subject(j))
  /\ Lock(j, Subject(j))
  /\ Goto(j, IF NeedsRefund(j) THEN "refund" ELSE "mark")
  /\ UNCHANGED <<rows, receiving, queue, locals, payload, faults>>

RefundOutside(j) ==                 \* mutant: not on the entity manager
  /\ at[j] = "refund"
  /\ IsFree(WalletOf[Subject(j)])
  /\ balance' = [balance EXCEPT ![WalletOf[Subject(j)]] = @ + AmountOf[Subject(j)]]
  /\ Goto(j, "mark")
  /\ UNCHANGED <<txStatus, credited, eventStatus, related, receiving, queue,
                 locals, owner, payload, faults>>

Refund(j) ==
  /\ at[j] = "refund"
  /\ IsFree(WalletOf[Subject(j)])
  /\ Lock(j, WalletOf[Subject(j)])
  /\ Goto(j, "mark")
  /\ UNCHANGED <<rows, receiving, queue, locals, payload, faults>>

(***************************************************************************)
(* processVirtualAccountDeposit: look for a row of this payment, else      *)
(* credit the wallet and insert one, which no unique index forbids.  The   *)
(* new row's id is written as its event.  The payload has the provider's   *)
(* id of the payment; without one any deposit of the tenant would match.   *)
(***************************************************************************)
NoExistingRows(j) == {}             \* mutant: does not look

ExistingRows(j) == {e \in credited : payload[e].subject = Subject(j)}

ReadPayment(j) ==
  /\ at[j] = "readPayment"
  /\ IF ExistingRows(j) = {}
       THEN Goto(j, "credit") /\ UNCHANGED linking
       ELSE /\ \E e \in ExistingRows(j) : linking' = [linking EXCEPT ![j] = e]
            /\ Goto(j, "mark")
  /\ UNCHANGED <<rows, receiving, queue, seen, owner, payload, faults>>

Credit(j) ==
  /\ at[j] = "credit"
  /\ IsFree(WalletOf[Subject(j)])
  /\ Lock(j, WalletOf[Subject(j)])
  /\ linking' = [linking EXCEPT ![j] = j.event]
  /\ Goto(j, "mark")
  /\ UNCHANGED <<rows, receiving, queue, seen, payload, faults>>

(***************************************************************************)
(* updateWebhookEventStatus(PROCESSED, related) and the commit.  The       *)
(* column related_transaction_id is unique: while another event with this  *)
(* value is being changed the update waits, and if one keeps it the update *)
(* throws.  The catch block's own update then fails too.                   *)
(***************************************************************************)
UnguardedRelated(j) == {}           \* mutant: the column is not unique

RelatedTo(j) == {e \in Events \ {j.event} : linking[j] # NoRow /\ related[e] = linking[j]}

RefundedAsFailed(j) ==              \* mutant: REVERSED is not written
  IF OutcomeOf(j) = "success" THEN "SUCCESS" ELSE "FAILED"

CommittedStatus(j) ==
  IF OutcomeOf(j) = "success" THEN "SUCCESS"
  ELSE IF NeedsRefund(j) THEN "REVERSED" ELSE "FAILED"

Mark(j) ==
  /\ at[j] = "mark"
  /\ IsFree(j.event)
  /\ \A e \in RelatedTo(j) : IsFree(e)
  /\ IF RelatedTo(j) # {}
       THEN Throw(j) /\ UNCHANGED faults
       ELSE /\ eventStatus' = [eventStatus EXCEPT ![j.event] = "PROCESSED"]
            /\ related' = IF linking[j] = NoRow THEN related
                          ELSE [related EXCEPT ![j.event] = linking[j]]
            /\ txStatus' = [t \in Transactions |->
                              IF owner[t] = Inner(j) THEN CommittedStatus(j)
                                                     ELSE txStatus[t]]
            /\ balance' = [w \in Wallets |->
                             IF owner[w] = Inner(j)
                               THEN balance[w] + AmountOf[Subject(j)]
                               ELSE balance[w]]
            /\ credited' = IF linking[j] = j.event THEN credited \cup {j.event}
                                                   ELSE credited
            /\ owner' = [row \in Rows |->
                           IF owner[row] = Inner(j) THEN NoRow ELSE owner[row]]
            /\ Goto(j, "return")
            /\ UNCHANGED <<receiving, queue, locals, payload, faults>>

(***************************************************************************)
(* The catch block marks the event FAILED and rethrows, which rolls the    *)
(* mark back with the rest.                                                *)
(***************************************************************************)
CatchOutside(j) ==                  \* mutant: FAILED is written outside
  /\ at[j] = "catch"
  /\ IsFree(j.event)
  /\ Leave(j)
  /\ queue' = [queue EXCEPT
       ![j].state = IF queue[j].failures + 1 < MaxAttempts THEN "waiting" ELSE "failed",
       ![j].failures = @ + 1]
  /\ eventStatus' = [eventStatus EXCEPT ![j.event] = "FAILED"]
  /\ UNCHANGED <<txStatus, credited, balance, related, receiving, payload, faults>>

Catch(j) ==
  /\ at[j] = "catch"
  /\ IsFree(j.event)
  /\ Throw(j)
  /\ UNCHANGED faults

(***************************************************************************)
(* The outer transaction of a replay commits; the job is completed.        *)
(***************************************************************************)
Return(j) ==
  /\ at[j] = "return"
  /\ eventStatus' = IF owner[j.event] = Outer(j)
                      THEN [eventStatus EXCEPT ![j.event] = "PENDING"]
                      ELSE eventStatus
  /\ related' = IF owner[j.event] = Outer(j)
                  THEN [related EXCEPT ![j.event] = NoRow]
                  ELSE related
  /\ Leave(j)
  /\ queue' = [queue EXCEPT ![j].state = "completed"]
  /\ UNCHANGED <<txStatus, credited, balance, receiving, payload, faults>>

-----------------------------------------------------------------------------
(***************************************************************************)
(* Faults.  A connection is lost, perhaps after its COMMIT was carried     *)
(* out; a worker stops, and the queue gives its job to another one.        *)
(***************************************************************************)
ConnectionLost(j) ==
  /\ queue[j].state = "active"
  /\ CountFault
  /\ Throw(j)

WorkerStops(j) ==
  /\ queue[j].state = "active"
  /\ CountFault
  /\ Leave(j)
  /\ queue' = [queue EXCEPT
       ![j].state = IF queue[j].stalls < MaxStalls THEN "waiting" ELSE "failed",
       ![j].stalls = IF @ < MaxStalls THEN @ + 1 ELSE @]
  /\ UNCHANGED <<rows, receiving, payload>>

Work(j) ==
  \/ Take(j)
  \/ Reset(j)
  \/ ReadEvent(j)
  \/ ReadTransaction(j)
  \/ UpdateStatus(j)
  \/ Refund(j)
  \/ ReadPayment(j)
  \/ Credit(j)
  \/ Mark(j)
  \/ Catch(j)
  \/ Return(j)

Quiet ==
  /\ \A j \in Jobs : queue[j].state \in {"none", "completed", "failed"}
  /\ UNCHANGED vars

Next ==
  \/ \E t \in Transactions : CommitWithdrawal(t)
  \/ \E e \in Events : Receive(e) \/ StoreEvent(e) \/ LoseEvent(e) \/ AskReplay(e)
  \/ \E j \in Jobs : Work(j) \/ ConnectionLost(j) \/ WorkerStops(j)
  \/ Quiet

Spec == Init /\ [][Next]_vars

(***************************************************************************)
(* Workers keep taking jobs, and statements that need not wait return.     *)
(* Nothing forces providers, operators or faults.                          *)
(***************************************************************************)
Fairness == \A j \in Jobs : WF_vars(Work(j))

FairSpec == Spec /\ Fairness

-----------------------------------------------------------------------------
(***************************************************************************)
(* Every variable stays within the columns and values the code declares;   *)
(* a job is never tried more often than addWebhookProcessingJob allows.    *)
(***************************************************************************)
TypeOK ==
  /\ txStatus \in [Transactions ->
                     {"absent", "PENDING", "SUCCESS", "FAILED", "REVERSED"}]
  /\ credited \subseteq Events
  /\ balance \in [Wallets -> Int]
  /\ eventStatus \in [Events -> {"absent", "PENDING", "PROCESSED", "FAILED"}]
  /\ related \in [Events -> Transactions \cup Events \cup {NoRow}]
  /\ receiving \subseteq Events
  /\ queue \in [Jobs -> [state : {"none", "waiting", "active", "completed", "failed"},
                         failures : 0..MaxAttempts, stalls : 0..MaxStalls]]
  /\ at \in [Jobs -> {"off", "reset", "readEvent", "readTransaction",
                      "updateStatus", "refund", "readPayment", "credit",
                      "mark", "catch", "return"}]
  /\ seen \in [Jobs -> {"none", "absent", "PENDING", "SUCCESS", "FAILED", "REVERSED"}]
  /\ linking \in [Jobs -> Transactions \cup Events \cup {NoRow}]
  /\ owner \in [Rows -> Owners]
  /\ payload \in [Events -> Payloads]
  /\ faults \in 0..MaxFaults

(***************************************************************************)
(* The statuses of a wallet's transactions explain its balance: a pending  *)
(* or successful withdrawal is deducted, a reversed or failed one is not,  *)
(* a deposit counts while it is successful (processSuccessfulTransaction   *)
(* and processFailedTransaction: the status, and the balance if needed).   *)
(***************************************************************************)
StatementExplainsBalance ==
  \A w \in Wallets : balance[w] = StatementBalance(w)

(***************************************************************************)
(* However often a failure is reported, retried or replayed, a wallet      *)
(* never holds more than if none of its withdrawals had been made.         *)
(***************************************************************************)
Deposited(t) == IF TypeOf[t] = "DEPOSIT" THEN AmountOf[t] ELSE 0

RefundsNeverExceedDebits ==
  \A w \in Wallets :
    balance[w] <= OpeningBalance(w)
                    + SumFunctionOnSet([t \in Transactions |-> Deposited(t)],
                                       TransactionsOf(w))
                    + PaymentsCredited(w)

(***************************************************************************)
(* The provider's first report settles a withdrawal: contradictory and     *)
(* repeated reports, processed by several workers, do not change it again. *)
(***************************************************************************)
FirstReportDecides ==
  [][\A t \in Transactions :
       TypeOf[t] = "WITHDRAWAL" /\ txStatus[t] \in {"SUCCESS", "REVERSED", "FAILED"} =>
         txStatus'[t] = txStatus[t]]_vars

(***************************************************************************)
(* An event marked PROCESSED has had the effect it reports, and keeps it.  *)
(***************************************************************************)
ProcessedEventsTookEffect ==
  \A e \in Events :
    LET p == payload[e]
    IN  eventStatus[e] = "PROCESSED" =>
          /\ Outcome(p) = "success" => txStatus[p.subject] = "SUCCESS"
          /\ Outcome(p) = "failed" => txStatus[p.subject] \in {"FAILED", "REVERSED"}
          /\ Outcome(p) = "payment" => \E x \in credited : payload[x].subject = p.subject
          /\ Outcome(p) # "rejected"

(***************************************************************************)
(* A job that is completed has done what it was queued for: an attempt     *)
(* that fails leaves no status behind that would make the next one skip    *)
(* the event (the status is written in the transaction that the rethrown   *)
(* error rolls back, webhooks.service.ts:259).                             *)
(***************************************************************************)
CompletedMeansProcessed ==
  \A e \in Events :
    queue[Process(e)].state = "completed" => eventStatus[e] = "PROCESSED"

(***************************************************************************)
(* While nothing is replayed, events, jobs, retries, workers and faults    *)
(* implement Settlement: every step is a step of it, or changes nothing in *)
(* the statuses, the balances and the credited events.                     *)
(***************************************************************************)
Settled == INSTANCE Settlement

ImplementsSettlement == Settled!Spec

(***************************************************************************)
(* The invariants the proofs are by induction on.  In every behaviour: a   *)
(* job is at a statement exactly while it is active, and only at those its *)
(* event leads to, and locks a wallet only for it; attempts are counted.   *)
(***************************************************************************)
InOrder(j) ==
  /\ at[j] # "off" <=> queue[j].state = "active"
  /\ queue[j].failures = MaxAttempts => queue[j].state = "failed"
  /\ at[j] \in {"readTransaction", "updateStatus", "refund"} =>
       OutcomeOf(j) \in {"success", "failed"}
  /\ at[j] \in {"readPayment", "credit"} => OutcomeOf(j) = "payment"
  /\ at[j] = "mark" => OutcomeOf(j) # "rejected"
  /\ \A w \in Wallets : owner[w] = Inner(j) =>
       OutcomeOf(j) \in {"success", "failed", "payment"}

JobsAreInOrder == \A j \in Jobs : InOrder(j)

JInv == TypeOK /\ JobsAreInOrder

(***************************************************************************)
(* While nothing is replayed, and no provider reports that a deposit it    *)
(* had confirmed has failed: an event has one job, which it waits for      *)
(* unprocessed, related to nothing and credited with nothing.              *)
(***************************************************************************)
SettlementConditions ==
  /\ Replayable = {}
  /\ \A p \in Payloads : Outcome(p) = "failed" => TypeOf[p.subject] = "WITHDRAWAL"

EventsAreProcessedOnce ==
  /\ \A j \in Jobs : j.kind = "replay" => queue[j].state = "none"
  /\ \A e \in Events :
       /\ eventStatus[e] # "FAILED"
       /\ e \in receiving => eventStatus[e] = "absent"
       /\ eventStatus[e] # "absent" \/ e \in receiving =>
            queue[Process(e)].state # "none"
       /\ eventStatus[e] # "PROCESSED" => related[e] = NoRow /\ e \notin credited
       /\ queue[Process(e)].state = "completed" => eventStatus[e] = "PROCESSED"
  /\ \A j \in Jobs :
       /\ at[j] \in {"readTransaction", "updateStatus", "refund", "readPayment",
                     "credit", "mark"} => eventStatus[j.event] = "PENDING"
       /\ at[j] = "return" => eventStatus[j.event] = "PROCESSED"
       /\ at[j] # "reset"

(***************************************************************************)
(* A job has locked what it is going to change: the transaction it settles *)
(* and the wallet it refunds, or the wallet of the payment it credits.     *)
(***************************************************************************)
Settles(j) == OutcomeOf(j) \in {"success", "failed"}

Needs(j, row) ==
  \/ Settles(j) /\ row = Subject(j) /\ at[j] \in {"refund", "mark"}
  \/ /\ Settles(j) /\ row = WalletOf[Subject(j)] /\ at[j] = "mark"
     /\ NeedsRefund(j) /\ owner[Subject(j)] = Inner(j)
  \/ /\ OutcomeOf(j) = "payment" /\ row = WalletOf[Subject(j)]
     /\ at[j] = "mark" /\ linking[j] = j.event

LocksAreNeeded ==
  \A row \in Rows :
    owner[row] # NoRow => \E j \in Jobs : owner[row] = Inner(j) /\ Needs(j, row)

HoldsItsLocks(j) ==
  /\ at[j] = "refund" => owner[Subject(j)] = Inner(j) /\ NeedsRefund(j)
  /\ at[j] = "mark" /\ Settles(j) =>
       IF owner[Subject(j)] = Inner(j)
         THEN NeedsRefund(j) => owner[WalletOf[Subject(j)]] = Inner(j)
         ELSE AlreadySettled(j)
  /\ at[j] = "mark" /\ OutcomeOf(j) = "payment" =>
       \/ linking[j] = j.event /\ owner[WalletOf[Subject(j)]] = Inner(j)
       \/ linking[j] \in credited /\ payload[linking[j]].subject = Subject(j)

LocksAreHeld == \A j \in Jobs : HoldsItsLocks(j)

(***************************************************************************)
(* The unique column related_transaction_id keeps the event that settled a *)
(* withdrawal, so that whoever read the withdrawal before, or finds it     *)
(* settled otherwise, cannot mark another.                                 *)
(***************************************************************************)
SettledBySomeEvent(t) ==
  IF TypeOf[t] = "DEPOSIT"
    THEN txStatus[t] = "SUCCESS"
    ELSE /\ txStatus[t] # "FAILED"
         /\ txStatus[t] \in {"SUCCESS", "REVERSED"} => \E e \in Events : related[e] = t

HasRead(j) ==
  /\ at[j] \in {"updateStatus", "refund", "mark"} /\ Settles(j) =>
       /\ linking[j] = Subject(j)
       /\ seen[j] # "absent" /\ txStatus[Subject(j)] # "absent"
       /\ seen[j] = "PENDING" \/ txStatus[Subject(j)] # "PENDING"
       /\ at[j] # "mark" \/ owner[Subject(j)] = Inner(j) =>
            TypeOf[Subject(j)] = "WITHDRAWAL"
  /\ at[j] \in {"off", "readEvent", "readPayment", "credit"} => linking[j] = NoRow
  /\ at[j] = "mark" /\ OutcomeOf(j) = "ignored" => linking[j] = NoRow

SettledByAnEvent ==
  /\ \A t \in Transactions : SettledBySomeEvent(t)
  /\ \A j \in Jobs : HasRead(j)

SInv ==
  /\ JInv
  /\ EventsAreProcessedOnce
  /\ LocksAreNeeded
  /\ LocksAreHeld
  /\ SettledByAnEvent
  /\ ProcessedEventsTookEffect

(***************************************************************************)
(* transactions.service.ts: the look-up by providerTransactionId is there  *)
(* to ensure idempotency.  So a payment into a virtual account is credited *)
(* once, in whatever number of events it is reported.                      *)
(***************************************************************************)
PaymentCreditedOnce ==
  \A e, x \in credited : payload[e].subject = payload[x].subject => e = x

(***************************************************************************)
(* A single worker keeps that promise, whatever is replayed: nobody        *)
(* inserts a row between its look-up and its own insert.                   *)
(***************************************************************************)
SingleWorker == Workers = 1 /\ IsFiniteSet(Events)

OneJobAtATime ==
  \A i, j \in Jobs : at[i] # "off" /\ at[j] # "off" => i = j

CreditsAreNew ==
  \A j \in Jobs :
    /\ at[j] \in {"off", "reset", "readEvent", "readTransaction", "readPayment",
                  "credit"} => linking[j] = NoRow
    /\ at[j] \in {"updateStatus", "refund"} => linking[j] \in Transactions
    /\ at[j] = "credit" => ExistingRows(j) = {}
    /\ at[j] = "mark" /\ linking[j] = j.event =>
         j.event \in credited \/ ExistingRows(j) = {}

(***************************************************************************)
(* What the one worker has read of a transaction is still so when it       *)
(* commits, and it has locked nothing it is not going to change.           *)
(***************************************************************************)
ReadsAreCurrent ==
  \A j \in Jobs :
    /\ at[j] \in {"updateStatus", "refund", "mark"} /\ Settles(j) =>
         /\ linking[j] \in Transactions
         /\ seen[j] = txStatus[Subject(j)] /\ seen[j] # "absent"
         /\ at[j] # "mark" \/ owner[Subject(j)] = Inner(j) => ~ AlreadySettled(j)
    /\ at[j] = "mark" /\ OutcomeOf(j) = "ignored" => linking[j] = NoRow

OnlyWithdrawalsPend ==
  \A t \in Transactions :
    txStatus[t] \in {"absent", "PENDING"} => TypeOf[t] = "WITHDRAWAL"

LocksAreOwn ==
  \A j \in Jobs :
    /\ \A row \in Rows : owner[row] = Inner(j) => Needs(j, row)
    /\ at[j] = "refund" => owner[Subject(j)] = Inner(j) /\ NeedsRefund(j)
    /\ at[j] = "mark" /\ Settles(j) /\ owner[Subject(j)] = Inner(j) =>
         (NeedsRefund(j) <=> owner[WalletOf[Subject(j)]] = Inner(j))
    /\ at[j] = "mark" /\ OutcomeOf(j) = "payment" /\ linking[j] = j.event =>
         (j.event \notin credited <=> owner[WalletOf[Subject(j)]] = Inner(j))

RInv ==
  /\ JInv
  /\ OneJobAtATime
  /\ CreditsAreNew
  /\ ReadsAreCurrent
  /\ OnlyWithdrawalsPend
  /\ LocksAreOwn
  /\ PaymentCreditedOnce

(***************************************************************************)
(* RefundsNeverExceedDebits is not inductive: nothing in it says that a    *)
(* withdrawal about to be refunded is still missing from the balance.      *)
(* That the pending ones all are, is.                                      *)
(***************************************************************************)
Outstanding(t) ==
  IF TypeOf[t] = "DEPOSIT" THEN AmountOf[t]
  ELSE IF txStatus[t] = "PENDING" THEN -AmountOf[t] ELSE 0

PendingDebitsAreMissing ==
  \A w \in Wallets :
    balance[w] <= OpeningBalance(w)
                    + SumFunctionOnSet([t \in Transactions |-> Outstanding(t)],
                                       TransactionsOf(w))
                    + PaymentsCredited(w)

(***************************************************************************)
(* One worker reads, locks and refunds in step with the committed rows,    *)
(* whatever is replayed (processFailedTransaction, webhooks.processor.ts). *)
(***************************************************************************)
RefundInv == RInv /\ PendingDebitsAreMissing

(***************************************************************************)
(* With one worker, replays too implement a promise, the weaker one of     *)
(* ReplayedSettlement: whatever is replayed in whatever order, each step   *)
(* moves money as it says there, with its status or row, or moves none.    *)
(***************************************************************************)
Replayed ==
  INSTANCE ReplayedSettlement WITH recorded <- {payload[e].subject : e \in credited}

ImplementsReplayedSettlement == Replayed!SpecRecorded

(***************************************************************************)
(* Every queued job ends, completed or given up.                           *)
(***************************************************************************)
JobsEnd ==
  \A j \in Jobs :
    queue[j].state = "waiting" ~> queue[j].state \in {"completed", "failed"}
=============================================================================
