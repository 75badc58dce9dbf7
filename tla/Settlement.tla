----------------------------- MODULE Settlement -----------------------------
(***************************************************************************)
(* What the webhooks of the providers promise about money, without events, *)
(* jobs, workers or locks: a withdrawal that has been debited is settled   *)
(* once, and its refund is one step with its reversal; a payment into a    *)
(* virtual account is one step with the row that records it.               *)
(***************************************************************************)
EXTENDS Integers

CONSTANTS Transactions, TypeOf, InitialStatus, Payments, WalletOf, AmountOf,
          Wallets, Events

VARIABLES
  txStatus,   \* status of each transaction
  balance,    \* balance of each wallet
  credited    \* the events that have been credited

vars == <<txStatus, balance, credited>>

Init ==
  /\ txStatus = InitialStatus
  /\ balance \in [Wallets -> Int]
  /\ credited = {}

Add(x, amount) == balance' = [balance EXCEPT ![WalletOf[x]] = @ + amount]

Become(t, status) == txStatus' = [txStatus EXCEPT ![t] = status]

Withdraw(t) ==
  /\ txStatus[t] = "absent"
  /\ Become(t, "PENDING")
  /\ Add(t, -AmountOf[t])
  /\ UNCHANGED credited

Succeed(t) ==
  /\ txStatus[t] = "PENDING"
  /\ Become(t, "SUCCESS")
  /\ UNCHANGED <<balance, credited>>

Reverse(t) ==
  /\ txStatus[t] = "PENDING"
  /\ Become(t, "REVERSED")
  /\ Add(t, AmountOf[t])
  /\ UNCHANGED credited

CreditPayment(e, p) ==
  /\ e \notin credited
  /\ credited' = credited \cup {e}
  /\ Add(p, AmountOf[p])
  /\ UNCHANGED txStatus

Withdrawals == {t \in Transactions : TypeOf[t] = "WITHDRAWAL"}

Next ==
  \/ \E t \in Withdrawals : Withdraw(t) \/ Succeed(t) \/ Reverse(t)
  \/ \E e \in Events, p \in Payments : CreditPayment(e, p)

Spec == Init /\ [][Next]_vars
=============================================================================
