--------------------------- MODULE MCWebhookEvents ---------------------------
(***************************************************************************)
(* A withdrawal w1 that the client's request has not committed yet, a      *)
(* deposit d1 that was credited, a payment p1 into a virtual account, all  *)
(* of one wallet, and what the three providers may report of them.         *)
(***************************************************************************)
EXTENDS WebhookEvents, TLC

CONSTANTS e1, e2, w1, d1, p1, wallet

MCTypeOf == w1 :> "WITHDRAWAL" @@ d1 :> "DEPOSIT"
MCInitialStatus == w1 :> "absent" @@ d1 :> "SUCCESS"
MCCommittedStatus == w1 :> "PENDING" @@ d1 :> "SUCCESS"
MCWalletOf == w1 :> wallet @@ d1 :> wallet @@ p1 :> wallet
MCAmountOf == w1 :> 1 @@ d1 :> 2 @@ p1 :> 4
MCInitialBalance == wallet :> 7

Report(provider, event, subject) ==
  [provider |-> provider, event |-> event, subject |-> subject]

WithdrawalPaid == Report("paystack", "transfer.success", w1)
WithdrawalFailed == Report("flutterwave", "transfer.failed", w1)
DepositPaid == Report("stripe", "payment_intent.succeeded", d1)
AccountPaid == Report("paystack", "dedicatedaccount.assign_success", p1)
UnknownAccount == Report("flutterwave", "account_number.payment", NoRow)
UnknownProvider == Report("nobody", "transfer.success", w1)
OtherEvent == Report("stripe", "customer.created", NoRow)

WithdrawalReports == {WithdrawalPaid, WithdrawalFailed}

SettlementReports ==
  WithdrawalReports \cup {DepositPaid, AccountPaid, UnknownProvider, OtherEvent}

ReplayReports == WithdrawalReports \cup {AccountPaid, UnknownAccount}
=============================================================================
