\* Requests the services turn away, and their clean retries; everyone is answered.
CONSTANTS
  r1 = r1  r2 = r2  r3 = r3
  w1 = w1  w2 = w2  w3 = w3
  k1 = k1  k2 = k2
  Requests = {r1, r2}
  Wallets = {w1, w2, w3}
  Keys = {k1, k2}
  NoKey = NoKey
  NoRequest = NoRequest
  WalletInfo <- MCWalletInfo
  OpeningBalance <- MCOpeningBalance
  Inputs <- AllInputs
  Providers = {"paystack"}
  ProviderResults = {"success", "failed"}
  Scale = 1
  MaxBalance = 3
  PoolSize = 3
SPECIFICATION FairSpec
INVARIANTS IInv AInv
PROPERTIES ImplementsLedger EveryRequestAnswered
