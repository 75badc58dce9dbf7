\* Two writers, two readers, two rows, three of the keys.
CONSTANTS
  t1 = t1  t2 = t2  wallet = wallet  user = user
  webhook = webhook  deposit = deposit
  reader1 = reader1  reader2 = reader2
  Tenant = tenant
  Transactions = {t1, t2}
  Wallets = {wallet}
  Users = {user}
  Writers = {webhook, deposit}
  Readers = {reader1, reader2}
  InitialVersion <- MCInitialVersion
  WalletOf <- MCWalletOf
  RowsOfUser <- MCRowsOfUser
  WritesOf <- MCWritesOf
  AskedKeys <- MCAskedKeys
SPECIFICATION FairSpec
INVARIANTS OnlySnapshotsAreShown NewRowsAreFound OlderEntriesAreDeleted
           IInv
PROPERTY CacheConverges
