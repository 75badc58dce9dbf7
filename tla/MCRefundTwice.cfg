\* A replay while another worker processes a copy.
CONSTANTS
  e1 = e1  e2 = e2
  w1 = w1  d1 = d1  p1 = p1  wallet = wallet
  NoRow = NoRow
  Events = {e1, e2}
  Transactions = {w1, d1}
  Payments = {p1}
  Wallets = {wallet}
  TypeOf <- MCTypeOf
  InitialStatus <- MCCommittedStatus
  WalletOf <- MCWalletOf
  AmountOf <- MCAmountOf
  InitialBalance <- MCInitialBalance
  Payloads <- WithdrawalReports
  Replayable = {e1}
  Workers = 2
  MaxFaults = 0
SPECIFICATION Spec
INVARIANT RefundsNeverExceedDebits
CHECK_DEADLOCK FALSE
