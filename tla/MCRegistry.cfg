\* Three requests of any kind, two tenants, one fault.
CONSTANTS
  q1 = q1  q2 = q2  q3 = q3
  acme = acme  bolt = bolt  ann = ann  bob = bob  purse = purse
  mail = mail  annsMail = annsMail  p1 = p1  p2 = p2  USD = USD  EUR = EUR
  Nothing = Nothing
  Requests = {q1, q2, q3}
  FirstTenants <- MCTenants
  FirstUsers <- MCUsers
  FirstWallets <- MCWallets
  FirstAccounts = {}
  Names = {"acme", "bolt", "corp"}
  Emails = {mail}
  Passwords = {p1, p2}
  Currencies = {USD, EUR}
  UpperCase <- MCUpperCase
  Suffixes = {1, 2}
  MaxFaults = 1
SYMMETRY Symmetry
SPECIFICATION Spec
INVARIANTS TenantsAreIsolated AnswersAreTrue ConflictsHaveACause
           OnlyRacesGetConflict KnownCredentialsWork
           IInv
