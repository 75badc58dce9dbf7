\* Two events and their replays, one worker, one fault; a replay may hang.
CONSTANTS
  e1 = e1  e2 = e2
  w1 = w1  d1 = d1  p1 = p1  wallet = wallet
  NoRow = NoRow
  Events = {e1, e2}
  Transactions = {w1, d1}
  Payments = {p1}
  Wallets = {wallet}
  TypeOf <- MCTypeOf
  InitialStatus <- MCInitialStatus
  WalletOf <- MCWalletOf
  AmountOf <- MCAmountOf
  InitialBalance <- MCInitialBalance
  Payloads <- ReplayReports
  Replayable = {e1, e2}
  Workers = 1
  MaxFaults = 1
SPECIFICATION Spec
INVARIANTS RefundsNeverExceedDebits PaymentCreditedOnce RefundInv
PROPERTY ImplementsReplayedSettlement
CHECK_DEADLOCK FALSE
