\* Two events, two workers, one fault, no replay.
CONSTANTS
  e1 = e1  e2 = e2
  w1 = w1  d1 = d1  p1 = p1  wallet = wallet
  NoRow = NoRow
  Events = {e1, e2}
  Transactions = {w1, d1}
  Payments = {p1}
  Wallets = {wallet}
  TypeOf <- MCTypeOf
  InitialStatus <- MCInitialStatus
  WalletOf <- MCWalletOf
  AmountOf <- MCAmountOf
  InitialBalance <- MCInitialBalance
  Payloads <- SettlementReports
  Replayable = {}
  Workers = 2
  MaxFaults = 1
SPECIFICATION FairSpec
INVARIANTS StatementExplainsBalance ProcessedEventsTookEffect
           CompletedMeansProcessed SInv
PROPERTIES ImplementsSettlement FirstReportDecides JobsEnd
