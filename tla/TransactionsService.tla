------------------------- MODULE TransactionsService -------------------------
(***************************************************************************)
(* processDeposit, processWithdrawal and processTransfer of                *)
(* TransactionsService, with the IdempotencyService and WalletsService     *)
(* methods they call, run by concurrent requests against PostgreSQL.       *)
(*                                                                         *)
(* Each call runs in one READ COMMITTED database transaction.  A step is   *)
(* one statement of that transaction, or a few that touch nothing another  *)
(* request can see.  The database's own rules are part of the model: a row *)
(* updated by one transaction is locked against the others until it ends,  *)
(* a second UPDATE then starts from the newest committed version, an       *)
(* INSERT of a unique value waits for an uncommitted row with that value,  *)
(* and one transaction of a cycle of waits is rolled back.                 *)
(***************************************************************************)
EXTENDS WalletData, FiniteSetsExt

CONSTANTS
  Inputs,           \* the request bodies clients may send
  Providers,        \* names PaymentProvidersService.getProvider knows
  ProviderResults,  \* results a provider's initiate... call may report
  PoolSize,         \* connections of the process's pool
  NoRequest         \* the owner of an unlocked row

ASSUME InputsAssumption == \A in \in Inputs : IsRequestBody(in)
ASSUME NoRequestAssumption == NoRequest \notin Requests

VARIABLES
  balance,   \* committed balance of each wallet, in cents
  txns,      \* committed rows of the transactions table
  idem,      \* committed rows of the idempotency_keys table
  owner,     \* the request whose transaction has locked a wallet's row
  newest,    \* the newest version of a wallet's balance, perhaps uncommitted
  newIdem,   \* each request's own, uncommitted, idempotency row
  newTxns,   \* each request's own, uncommitted, transaction rows
  input,     \* the body each request was sent with
  found,     \* the row findByKeyAndTenantId returned: none or one
  pc,        \* the statement each request is at
  answer     \* what the client was told

tables == <<balance, txns, idem>>
rowVersions == <<owner, newest>>
vars == <<balance, txns, idem, owner, newest, newIdem, newTxns,
          input, found, pc, answer>>

(***************************************************************************)
(* Rows of idempotency_keys.  The id is a generated uuid that no client    *)
(* knows.  It matters only whether it equals the key of some request, so   *)
(* every id that equals none is NoKey.                                     *)
(***************************************************************************)
IdempotencyStatus == {"PENDING", "PROCESSED", "FAILED"}

IdempotencyRows ==
  [id : Keys \cup {NoKey}, key : Keys,
   tenantId : {in.tenantId : in \in Inputs}, status : IdempotencyStatus]

(***************************************************************************)
(* Where a request is, and the wallets' rows it has locked by then.        *)
(***************************************************************************)
InTransactionAt == {"findKey", "claimKey", "readWallets", "debit", "credit",
                    "record", "finish"}

Steps == InTransactionAt \cup {"idle", "queued", "respond", "done"}

Answers == {"none", "created", "lost", "conflict", "refused", "insufficient",
            "providerFailed", "overflow", "keyError", "deadlock"}

InTransaction(r) == pc[r] \in InTransactionAt

FreeConnections == PoolSize - Cardinality({r \in Requests : InTransaction(r)})

(***************************************************************************)
(* The requests whose end a request's next statement has to wait for.      *)
(***************************************************************************)
Credited(in) == IF in.op = "TRANSFER" THEN in.dest ELSE in.walletId

WaitsForKeysOnly(r) ==              \* mutant: row locks are not honoured
  IF pc[r] = "claimKey"
    THEN {s \in Requests \ {r} : \E x \in newIdem[s] : x.key = input[r].key}
    ELSE {}

WaitsFor(r) ==
  CASE pc[r] = "claimKey" ->
         {s \in Requests \ {r} : \E x \in newIdem[s] : x.key = input[r].key}
    [] pc[r] = "debit"  -> {owner[input[r].walletId]} \ {r, NoRequest}
    [] pc[r] = "credit" -> {owner[Credited(input[r])]} \ {r, NoRequest}
    [] OTHER -> {}

-----------------------------------------------------------------------------
Init ==
  /\ balance = OpeningBalance
  /\ txns = {}
  /\ idem = {}
  /\ owner = [w \in Wallets |-> NoRequest]
  /\ newest = OpeningBalance
  /\ newIdem = [r \in Requests |-> {}]
  /\ newTxns = [r \in Requests |-> {}]
  /\ input \in [Requests -> Inputs]
  /\ found = [r \in Requests |-> {}]
  /\ pc = [r \in Requests |-> "idle"]
  /\ answer = [r \in Requests |-> "none"]

Goto(r, step) == pc' = [pc EXCEPT ![r] = step]

(***************************************************************************)
(* The ends of a database transaction.  An exception rolls it back and     *)
(* becomes the answer; the other end commits every uncommitted row of the  *)
(* request.                                                                *)
(***************************************************************************)
Unlock(r) == owner' = [w \in Wallets |->
                         IF owner[w] = r THEN NoRequest ELSE owner[w]]

DropUncommitted(r) ==
  /\ newIdem' = [newIdem EXCEPT ![r] = {}]
  /\ newTxns' = [newTxns EXCEPT ![r] = {}]
  /\ found' = [found EXCEPT ![r] = {}]

RollbackKeepingRows(r, why) ==      \* mutant: rows saved outside the transaction
  /\ newest' = [w \in Wallets |->
                  IF owner[w] = r THEN balance[w] ELSE newest[w]]
  /\ Unlock(r)
  /\ DropUncommitted(r)
  /\ txns' = txns \cup newTxns[r]
  /\ answer' = [answer EXCEPT ![r] = why]
  /\ Goto(r, "done")
  /\ UNCHANGED <<balance, idem, input>>

Rollback(r, why) ==
  /\ newest' = [w \in Wallets |->
                  IF owner[w] = r THEN balance[w] ELSE newest[w]]
  /\ Unlock(r)
  /\ DropUncommitted(r)
  /\ answer' = [answer EXCEPT ![r] = why]
  /\ Goto(r, "done")
  /\ UNCHANGED <<tables, input>>

Commit(r, keyRows) ==
  /\ balance' = [w \in Wallets |->
                   IF owner[w] = r THEN newest[w] ELSE balance[w]]
  /\ txns' = txns \cup newTxns[r]
  /\ idem' = {x \in idem : \A y \in keyRows : x.key # y.key} \cup keyRows
  /\ Unlock(r)
  /\ DropUncommitted(r)
  /\ Goto(r, "respond")
  /\ UNCHANGED <<newest, input, answer>>

-----------------------------------------------------------------------------
(***************************************************************************)
(* A request arrives.  A transfer from a wallet to itself is refused       *)
(* before a transaction is opened.                                         *)
(***************************************************************************)
Submit(r) ==
  /\ pc[r] = "idle"
  /\ IF input[r].op = "TRANSFER" /\ input[r].walletId = input[r].dest
       THEN /\ answer' = [answer EXCEPT ![r] = "refused"]
            /\ Goto(r, "done")
       ELSE /\ Goto(r, "queued")
            /\ UNCHANGED answer
  /\ UNCHANGED <<tables, rowVersions, newIdem, newTxns, input, found>>

(***************************************************************************)
(* dataSource.transaction takes a connection of the pool.                  *)
(***************************************************************************)
Begin(r) ==
  /\ pc[r] = "queued"
  /\ FreeConnections > 0
  /\ Goto(r, "findKey")
  /\ UNCHANGED <<tables, rowVersions, newIdem, newTxns, input, found, answer>>

(***************************************************************************)
(* findByKeyAndTenantId, and the conflicts it can show.                    *)
(***************************************************************************)
UncommittedRowsOfKey(r) ==          \* mutant: reads what is not committed
  {x \in idem \cup UNION {newIdem[s] : s \in Requests} :
     x.key = input[r].key /\ x.tenantId = input[r].tenantId}

RowsOfKey(r) ==
  {x \in idem : x.key = input[r].key /\ x.tenantId = input[r].tenantId}

FindKey(r) ==
  /\ pc[r] = "findKey"
  /\ IF \E x \in RowsOfKey(r) : x.status \in {"PROCESSED", "PENDING"}
       THEN Rollback(r, "conflict")
       ELSE /\ found' = [found EXCEPT ![r] = RowsOfKey(r)]
            /\ Goto(r, "claimKey")
            /\ UNCHANGED <<tables, rowVersions, newIdem, newTxns, input, answer>>

(***************************************************************************)
(* The row of the key becomes PENDING: a FAILED row is updated by its id,  *)
(* otherwise a new row is inserted under a generated id.  The key is       *)
(* unique over all tenants.                                                *)
(***************************************************************************)
RowsWithoutTenant(r, id) ==         \* mutant: the tenant is not passed on
  {[id |-> id, key |-> input[r].key, tenantId |-> NoKey, status |-> "PENDING"]}

PendingRows(r, id) ==
  IF found[r] # {}
    THEN {[x EXCEPT !.status = "PENDING"] : x \in found[r]}
    ELSE {[id |-> id, key |-> input[r].key,
           tenantId |-> input[r].tenantId, status |-> "PENDING"]}

VisibleIds(r) == {x.id : x \in idem \cup newIdem[r]}

ClaimKey(r) ==
  /\ pc[r] = "claimKey"
  /\ WaitsFor(r) = {}
  /\ IF found[r] = {} /\ \E x \in idem : x.key = input[r].key
       THEN Rollback(r, "conflict")
       ELSE /\ \E id \in Keys \cup {NoKey} :
                 /\ id # NoKey => \A s \in Requests : id \notin VisibleIds(s)
                 /\ newIdem' = [newIdem EXCEPT ![r] = PendingRows(r, id)]
            /\ Goto(r, "readWallets")
            /\ UNCHANGED <<tables, rowVersions, newTxns, input, found, answer>>

(***************************************************************************)
(* findByTenantIdAndId runs on the repository, not on the transaction's    *)
(* entity manager: it needs a second connection, and sees only committed   *)
(* balances.                                                               *)
(***************************************************************************)
OwnsWallets(in) ==                  \* mutant: only the source is compared
  /\ WalletInfo[in.walletId].tenantId = in.tenantId
  /\ WalletInfo[in.walletId].userId = in.userId
  /\ WalletInfo[in.walletId].currency = in.currency

MayUseWallets(in) ==
  /\ \A w \in Touched(in) : WalletInfo[w].tenantId = in.tenantId
  /\ WalletInfo[in.walletId].userId = in.userId
  /\ \A w \in Touched(in) : WalletInfo[w].currency = in.currency

UncommittedBalance(w) == newest[w]  \* mutant: reads what is not committed

ReadBalance(w) == balance[w]

ReadWallets(r) ==
  /\ pc[r] = "readWallets"
  /\ FreeConnections > 0
  /\ IF ~ MayUseWallets(input[r])
       THEN Rollback(r, "refused")
     ELSE IF /\ input[r].op # "DEPOSIT"
             /\ ReadBalance(input[r].walletId) * Scale < input[r].amount
       THEN Rollback(r, "insufficient")
     ELSE /\ Goto(r, IF input[r].op = "DEPOSIT" THEN "record" ELSE "debit")
          /\ UNCHANGED <<tables, rowVersions, newIdem, newTxns, input, found, answer>>

(***************************************************************************)
(* updateWalletBalance(w, amount): UPDATE ... SET balance = balance +      *)
(* amount RETURNING balance, then the check that a debit left no negative  *)
(* balance.                                                                *)
(***************************************************************************)
UpdateWithoutCheck(r, w, amount, next) ==   \* mutant: trusts the earlier read
  LET updated == PlusAmount(newest[w], amount)
  IN  /\ WaitsFor(r) = {}
      /\ IF updated > MaxBalance
           THEN Rollback(r, "overflow")
           ELSE /\ owner' = [owner EXCEPT ![w] = r]
                /\ newest' = [newest EXCEPT ![w] = updated]
                /\ Goto(r, next)
                /\ UNCHANGED <<tables, newIdem, newTxns, input, found, answer>>

UpdateWalletBalance(r, w, amount, next) ==
  LET updated == PlusAmount(newest[w], amount)
  IN  /\ WaitsFor(r) = {}
      /\ IF updated > MaxBalance
           THEN Rollback(r, "overflow")
         ELSE IF amount < 0 /\ updated < 0
           THEN Rollback(r, "insufficient")
         ELSE /\ owner' = [owner EXCEPT ![w] = r]
              /\ newest' = [newest EXCEPT ![w] = updated]
              /\ Goto(r, next)
              /\ UNCHANGED <<tables, newIdem, newTxns, input, found, answer>>

Debit(r) ==
  /\ pc[r] = "debit"
  /\ UpdateWalletBalance(r, input[r].walletId, -input[r].amount,
       IF input[r].op = "TRANSFER" THEN "credit" ELSE "record")

Credit(r) ==
  /\ pc[r] = "credit"
  /\ UpdateWalletBalance(r, Credited(input[r]), input[r].amount,
       IF input[r].op = "TRANSFER" THEN "record" ELSE "finish")

(***************************************************************************)
(* createTransaction inserts the rows.  idempotencyKeyId is unique and     *)
(* references the id of an idempotency row, but what is stored there is    *)
(* the client's key.  A deposit or withdrawal then calls its provider, and *)
(* an unknown provider or any result but success ends in an exception that *)
(* also undoes the FAILED statuses written on the way out.                 *)
(***************************************************************************)
KeyIsStorable(r) ==
  /\ input[r].key \in VisibleIds(r)
  /\ \A t \in txns : t.idempotencyKeyId # input[r].key

Insert(r) ==
  /\ newTxns' = [newTxns EXCEPT ![r] =
       CreatedRows(r, input[r], FinalStatus(input[r].op))]
  /\ Goto(r, IF input[r].op = "DEPOSIT" THEN "credit" ELSE "finish")
  /\ UNCHANGED <<tables, rowVersions, newIdem, input, found, answer>>

Record(r) ==
  /\ pc[r] = "record"
  /\ IF ~ KeyIsStorable(r)
       THEN Rollback(r, "keyError")
     ELSE IF input[r].op = "TRANSFER"
       THEN Insert(r)
     ELSE IF input[r].provider \notin Providers
       THEN Rollback(r, "refused")
     ELSE \E result \in ProviderResults :
            IF result = "success" THEN Insert(r)
                                  ELSE Rollback(r, "providerFailed")

(***************************************************************************)
(* IdempotencyService.updateStatus(idempotencyKey, PROCESSED) looks the    *)
(* row up by its id; then the transaction commits.                         *)
(***************************************************************************)
UnmarkedRows(r) == newIdem[r]       \* mutant: the status is never updated

ProcessedRows(r) ==
  LET matched == {x \in idem \cup newIdem[r] : x.id = input[r].key}
  IN  {[x EXCEPT !.status = "PROCESSED"] : x \in matched}
        \cup (newIdem[r] \ matched)

Finish(r) ==
  /\ pc[r] = "finish"
  /\ IF input[r].key \notin VisibleIds(r)
       THEN Rollback(r, "keyError")
       ELSE Commit(r, ProcessedRows(r))

Respond(r) ==
  /\ pc[r] = "respond"
  /\ answer' = [answer EXCEPT ![r] = "created"]
  /\ Goto(r, "done")
  /\ UNCHANGED <<tables, rowVersions, newIdem, newTxns, input, found>>

-----------------------------------------------------------------------------
(***************************************************************************)
(* PostgreSQL rolls back one transaction of a cycle of waits.              *)
(***************************************************************************)
NoCycleDetected(r) == FALSE         \* mutant: waits for ever

InCycle(r) ==
  \E S \in SUBSET Requests :
    /\ r \in S
    /\ \A s \in S : /\ S \cap WaitsFor(s) # {}
                    /\ \E q \in S : s \in WaitsFor(q)

DeadlockVictim(r) ==
  /\ InCycle(r)
  /\ Rollback(r, "deadlock")

(***************************************************************************)
(* The process stops: nothing uncommitted survives, and every client still *)
(* waiting loses its connection, also the one whose request has committed. *)
(***************************************************************************)
Waiting(r) == InTransaction(r) \/ pc[r] \in {"queued", "respond"}

Crash ==
  /\ \E r \in Requests : Waiting(r)
  /\ owner' = [w \in Wallets |-> NoRequest]
  /\ newest' = balance
  /\ newIdem' = [r \in Requests |-> {}]
  /\ newTxns' = [r \in Requests |-> {}]
  /\ found' = [r \in Requests |-> {}]
  /\ answer' = [r \in Requests |-> IF Waiting(r) THEN "lost" ELSE answer[r]]
  /\ pc' = [r \in Requests |-> IF Waiting(r) THEN "done" ELSE pc[r]]
  /\ UNCHANGED <<tables, input>>

(***************************************************************************)
(* Nothing is left to do.                                                  *)
(***************************************************************************)
Quiet ==
  /\ \A r \in Requests : pc[r] = "done"
  /\ UNCHANGED vars

Step(r) ==
  \/ Begin(r)
  \/ FindKey(r)
  \/ ClaimKey(r)
  \/ ReadWallets(r)
  \/ Debit(r)
  \/ Credit(r)
  \/ Record(r)
  \/ Finish(r)
  \/ Respond(r)
  \/ DeadlockVictim(r)

Next ==
  \/ \E r \in Requests : Submit(r) \/ Step(r)
  \/ Crash
  \/ Quiet

Spec == Init /\ [][Next]_vars

(***************************************************************************)
(* The event loop and the database keep running every request that can     *)
(* run; clients need not send anything, and the process need not crash.    *)
(***************************************************************************)
FairSpec == Spec /\ \A r \in Requests : WF_vars(Step(r))

-----------------------------------------------------------------------------
(***************************************************************************)
(* Every variable stays within the columns and values the code declares.   *)
(***************************************************************************)
TypeOK ==
  /\ balance \in [Wallets -> Int]
  /\ txns \subseteq TransactionRows
  /\ idem \subseteq IdempotencyRows
  /\ owner \in [Wallets -> Requests \cup {NoRequest}]
  /\ newest \in [Wallets -> Int]
  /\ newIdem \in [Requests -> SUBSET IdempotencyRows]
  /\ newTxns \in [Requests -> SUBSET TransactionRows]
  /\ input \in [Requests -> Inputs]
  /\ found \in [Requests -> SUBSET IdempotencyRows]
  /\ pc \in [Requests -> Steps]
  /\ answer \in [Requests -> Answers]

(***************************************************************************)
(* No wallet is ever overdrawn, although the balance check of a request    *)
(* (processWithdrawal, processTransfer) reads a balance that concurrent    *)
(* requests change before the debit, and none leaves the column's range.   *)
(***************************************************************************)
NoOverdraft == \A w \in Wallets : balance[w] \in 0..MaxBalance

(***************************************************************************)
(* The transactions table explains every balance: what a wallet holds is   *)
(* what it held at first plus what its committed rows moved.  Of the two   *)
(* rows of a transfer, the one with the key is the source's.               *)
(***************************************************************************)
SignedAmount(t) ==
  IF t.type = "WITHDRAWAL" \/ (t.type = "TRANSFER" /\ t.idempotencyKeyId # NoKey)
    THEN -t.amount ELSE t.amount

RowsOf(w) == {t \in txns : t.walletId = w}

BooksBalance ==
  \A w \in Wallets :
    balance[w] = OpeningBalance[w]
                   + SumFunctionOnSet([t \in txns |-> SignedAmount(t)], RowsOf(w))

(***************************************************************************)
(* Books balance unless an amount to be debited ends in half a cent        *)
(* (finding half_cent): the balance and the row that records the debit are *)
(* then both rounded up, and differ.                                       *)
(***************************************************************************)
NoHalfCents ==
  \A in \in Inputs : in.op # "DEPOSIT" => 2 * (in.amount % Scale) # Scale

(***************************************************************************)
(* A client that sends one key any number of times, in any mixture of      *)
(* retries and concurrent copies, moves money exactly once when the key is *)
(* recorded as PROCESSED and not at all otherwise.                         *)
(***************************************************************************)
OneMovementPerKey ==
  \A k \in Keys :
    Cardinality({t \in txns : t.idempotencyKeyId = k})
      = Cardinality({x \in idem : x.key = k /\ x.status = "PROCESSED"})

(***************************************************************************)
(* What a client is told is what happened: a 201 only for rows that are    *)
(* committed, an error only for a request that left no row behind.  Only a *)
(* lost connection leaves the client in doubt.                             *)
(***************************************************************************)
AnswersAreTrue ==
  \A r \in Requests :
    /\ answer[r] = "created" =>
         CreatedRows(r, input[r], FinalStatus(input[r].op)) \subseteq txns
    /\ answer[r] \notin {"none", "created", "lost"} =>
         \A t \in txns : t.req # r

(***************************************************************************)
(* A 409 is final: it is given only when a movement of the key has been    *)
(* committed, so never on account of an attempt that is rolled back later. *)
(* The documented 409 "in progress" (transactions.controller.ts:58) does   *)
(* not occur: PENDING is never committed, so a copy of an attempt that is  *)
(* under way passes FindKey, and waits in ClaimKey for the other's end.    *)
(***************************************************************************)
ConflictMeansProcessed ==
  \A r \in Requests :
    answer[r] = "conflict" =>
      \E x \in idem : x.key = input[r].key /\ x.status = "PROCESSED"

(***************************************************************************)
(* A request is refused for lack of money only while the committed balance *)
(* really is too small, however it was reached: never on account of money  *)
(* another request has moved and may yet give back.                        *)
(***************************************************************************)
RefusalsAreJustified ==
  [][\A r \in Requests :
       answer[r] = "none" /\ answer'[r] = "insufficient" =>
         balance[input[r].walletId] * Scale < input[r].amount]_vars

(***************************************************************************)
(* What transactions.controller.ts says of the idempotency-key header: any *)
(* unique key will do.  So no request fails on account of its key's value. *)
(***************************************************************************)
AnyUniqueKeyIsAccepted == \A r \in Requests : answer[r] # "keyError"

(***************************************************************************)
(* All of it at once: the committed tables move only as Ledger says.       *)
(***************************************************************************)
L == INSTANCE Ledger WITH usedKeys <- {x.key : x \in idem}

ImplementsLedger == L!Spec

(***************************************************************************)
(* Why: the invariant the proofs are by induction on.  A request's locks   *)
(* follow from the statement it is at; a locked row's newest version is    *)
(* the committed one plus that request's own movement; a claimed key is in *)
(* no other request's and in no committed row; what will be committed has  *)
(* passed the checks.                                                      *)
(***************************************************************************)
Held(r) ==
  CASE pc[r] = "credit" /\ input[r].op = "TRANSFER" -> {input[r].walletId}
    [] pc[r] = "record" /\ input[r].op # "DEPOSIT"  -> Touched(input[r])
    [] pc[r] = "finish" -> Touched(input[r])
    [] OTHER -> {}

BalancesInRange ==
  \A w \in Wallets : balance[w] \in 0..MaxBalance /\ newest[w] \in 0..MaxBalance

LocksFollowSteps ==
  \A r \in Requests, w \in Wallets : owner[w] = r <=> w \in Held(r)

NewestIsExplained ==
  \A w \in Wallets :
    newest[w] = IF owner[w] = NoRequest THEN balance[w]
                ELSE PlusAmount(balance[w], Movement(input[owner[w]], w))

Claimed(r) == pc[r] \in {"readWallets", "debit", "credit", "record", "finish"}

KeysAreClaimed ==
  /\ \A x \in idem : x.id = x.key /\ x.status = "PROCESSED"
  /\ \A r \in Requests :
       /\ found[r] = {}
       /\ \A y \in newIdem[r] : y.key = input[r].key
       /\ Claimed(r) => /\ \E y \in newIdem[r] : newIdem[r] = {y}
                        /\ \A x \in idem : x.key # input[r].key
                        /\ \A s \in Requests \ {r} :
                             Claimed(s) => input[s].key # input[r].key

RequestsAreChecked ==
  \A r \in Requests :
    /\ pc[r] \in InTransactionAt \cup {"queued"} /\ input[r].op = "TRANSFER" =>
         input[r].walletId # input[r].dest
    /\ pc[r] \in {"debit", "credit", "record", "finish"} => MayUseWallets(input[r])
    /\ pc[r] = "debit" => input[r].op # "DEPOSIT"
    /\ pc[r] = "credit" => input[r].op # "WITHDRAWAL"
    /\ pc[r] = "finish" \/ (pc[r] = "credit" /\ input[r].op = "DEPOSIT") =>
         newTxns[r] = CreatedRows(r, input[r], FinalStatus(input[r].op))

IInv ==
  /\ TypeOK
  /\ BalancesInRange
  /\ LocksFollowSteps
  /\ NewestIsExplained
  /\ KeysAreClaimed
  /\ RequestsAreChecked

(***************************************************************************)
(* Why what is told is true: a request leaves no row before it commits and *)
(* all of them from then on, a row carries a key exactly when the key is   *)
(* used, and no two rows carry the same.  Inductive together with IInv.    *)
(***************************************************************************)
Rows(r) == CreatedRows(r, input[r], FinalStatus(input[r].op))

RowsFollowSteps ==
  \A r \in Requests :
    /\ pc[r] # "done" => answer[r] = "none"
    /\ \A t \in newTxns[r] : t.req = r
    /\ pc[r] = "respond" => Rows(r) \subseteq txns
    /\ pc[r] \notin {"respond", "done"} => \A t \in txns : t.req # r

RowsFollowKeys ==
  /\ \A k \in Keys :
       (\E t \in txns : t.idempotencyKeyId = k) <=> (\E x \in idem : x.key = k)
  /\ \A t, u \in txns :
       t.idempotencyKeyId = u.idempotencyKeyId /\ t.idempotencyKeyId # NoKey =>
         t = u
  /\ \A x, y \in idem : x.key = y.key => x = y

AInv ==
  /\ RowsFollowSteps
  /\ RowsFollowKeys
  /\ AnswersAreTrue
  /\ ConflictMeansProcessed

(***************************************************************************)
(* Every request that has been accepted is answered.                       *)
(***************************************************************************)
EveryRequestAnswered ==
  \A r \in Requests : pc[r] = "queued" ~> pc[r] = "done"

=============================================================================
