------------------------------- MODULE Ledger -------------------------------
(***************************************************************************)
(* What TransactionsService promises its callers, without database         *)
(* transactions, locks, retries or failures: each accepted request is      *)
(* posted in one step, against the balances of that moment, at most once   *)
(* per idempotency key, and never takes a wallet below zero.               *)
(***************************************************************************)
EXTENDS WalletData

CONSTANT Inputs        \* the request bodies clients may send

VARIABLES
  balance,             \* cents in each wallet
  txns,                \* rows of the transactions table
  usedKeys             \* keys of the requests posted so far

ledgerVars == <<balance, txns, usedKeys>>

Init ==
  /\ balance = OpeningBalance
  /\ txns = {}
  /\ usedKeys = {}

(***************************************************************************)
(* The caller may move this money: the debited or topped-up wallet is his, *)
(* every wallet is in his tenant and in the currency of the request.       *)
(***************************************************************************)
Authorised(in) ==
  /\ WalletInfo[in.walletId].userId = in.userId
  /\ \A w \in Touched(in) : /\ WalletInfo[w].tenantId = in.tenantId
                            /\ WalletInfo[w].currency = in.currency

(***************************************************************************)
(* Request r with body in takes effect, all of it at once.                 *)
(***************************************************************************)
Post(r, in) ==
  /\ Authorised(in)
  /\ in.key \notin usedKeys
  /\ in.op = "TRANSFER" => in.walletId # in.dest
  /\ in.op # "DEPOSIT" => PlusAmount(balance[in.walletId], -in.amount) >= 0
  /\ \A w \in Touched(in) : PlusAmount(balance[w], Movement(in, w)) <= MaxBalance
  /\ balance' = [w \in Wallets |->
                   IF w \in Touched(in)
                     THEN PlusAmount(balance[w], Movement(in, w))
                     ELSE balance[w]]
  /\ txns' = txns \cup CreatedRows(r, in, FinalStatus(in.op))
  /\ usedKeys' = usedKeys \cup {in.key}

Next == \E r \in Requests, in \in Inputs : Post(r, in)

Spec == Init /\ [][Next]_ledgerVars
=============================================================================
