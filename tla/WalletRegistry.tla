---------------------------- MODULE WalletRegistry ----------------------------
(***************************************************************************)
(* Tenants, users, wallets and virtual accounts come into being: the       *)
(* creations of TenantsService, UsersService, WalletsService and           *)
(* VirtualAccountsService, behind the guards and AuthService, with the     *)
(* unique indexes of the four tables.                                      *)
(*                                                                         *)
(* A step is one await.  A save is one INSERT in a database transaction of *)
(* its own, so it takes effect, or meets the unique index, at once.  The   *)
(* id of a new row is the request that created it.  A tenant's API key is  *)
(* a second uuid of its row, and stands for it as its id does.             *)
(***************************************************************************)
EXTENDS Integers, FiniteSets

CONSTANTS
  Requests,      \* HTTP requests, each made once
  FirstTenants,  \* rows of the four tables at first
  FirstUsers,
  FirstWallets,
  FirstAccounts,
  Names,         \* what requests ask for
  Emails,
  Passwords,
  Currencies,
  UpperCase,     \* toUpperCase of every provider name that is sent
  Suffixes,      \* the random part of an account number
  Nothing,       \* a field that is missing (of keys and tokens: or unknown)
  MaxFaults      \* bound on the faults of a behaviour

Providers == DOMAIN UpperCase

Ids(table) == {row.id : row \in table}
RowIds(table) == Ids(table) \cup Requests

(***************************************************************************)
(* What the columns, the unique indexes and the foreign keys of the four   *)
(* tables enforce, and what the creations keep besides: nothing crosses    *)
(* the border of a tenant.                                                 *)
(***************************************************************************)
Columns(t, u, w, a) ==
  /\ t \subseteq [id : RowIds(FirstTenants), name : Names]
  /\ u \subseteq [id : RowIds(FirstUsers), tenantId : RowIds(FirstTenants),
                  email : Emails \cup {v.email : v \in FirstUsers},
                  password : Passwords]
  /\ w \subseteq [id : RowIds(FirstWallets), userId : RowIds(FirstUsers),
                  tenantId : RowIds(FirstTenants), currency : Currencies]
  /\ a \subseteq [id : RowIds(FirstAccounts), tenantId : RowIds(FirstTenants),
                  walletId : RowIds(FirstWallets),
                  number : {"00", "01"} \X Suffixes,
                  currency : Currencies, provider : Providers]

UniqueIndexes(t, u, w, a) ==
  /\ \A x, y \in t : x.name = y.name => x = y
  /\ \A x, y \in u :
       x.id = y.id \/ (x.email = y.email /\ x.tenantId = y.tenantId) => x = y
  /\ \A x, y \in w : x.userId = y.userId /\ x.currency = y.currency => x = y
  /\ \A x, y \in a : x.number = y.number \/ x.walletId = y.walletId => x = y

SameTenant(u, w, a) ==
  /\ \A x \in w : \E y \in u : y.id = x.userId /\ y.tenantId = x.tenantId
  /\ \A x \in a : \E y \in w : /\ y.id = x.walletId /\ y.tenantId = x.tenantId
                             /\ y.currency = x.currency

ASSUME FirstTablesAssumption ==
  /\ Columns(FirstTenants, FirstUsers, FirstWallets, FirstAccounts)
  /\ UniqueIndexes(FirstTenants, FirstUsers, FirstWallets, FirstAccounts)
  /\ SameTenant(FirstUsers, FirstWallets, FirstAccounts)
ASSUME NewIdsAssumption ==
  \A table \in {FirstTenants, FirstUsers, FirstWallets, FirstAccounts} :
    Ids(table) \cap Requests = {}
ASSUME NothingAssumption == Nothing \notin RowIds(FirstTenants)
ASSUME MaxFaultsAssumption == MaxFaults \in Nat

VARIABLES
  tenants, users, wallets, accounts,   \* the committed tables
  request,    \* what each request asks
  pc,         \* the statement it is at
  number,     \* the account number its provider has given it
  session,    \* the user whose token its login was given
  response,   \* the HTTP status its client was sent, 0 without one
  known,      \* history: the users there were when it was made
  faults      \* faults so far

tables == <<tenants, users, wallets, accounts>>
vars == <<tenants, users, wallets, accounts, request, pc, number, session,
          response, known, faults>>

(***************************************************************************)
(* What AllExceptionsFilter makes of an exception, by the constructors'    *)
(* statuses and its own; a query that fails for another reason than a      *)
(* unique index is a 400.                                                  *)
(***************************************************************************)
HttpStatus ==
  [OK |-> 200, Created |-> 201, BadRequestException |-> 400,
   UnauthorizedException |-> 401, NotFoundException |-> 404,
   ConflictException |-> 409, QueryFailedError |-> 400, Error |-> 500]

Respond(q, what) ==
  /\ response' = [response EXCEPT ![q] = HttpStatus[what]]
  /\ pc' = [pc EXCEPT ![q] = "done"]

Goto(q, step) ==
  /\ pc' = [pc EXCEPT ![q] = step]
  /\ UNCHANGED response

CountFault == faults < MaxFaults /\ faults' = faults + 1

-----------------------------------------------------------------------------
(***************************************************************************)
(* findByEmailAndTenantId: the rows one of which findOneBy may return.     *)
(* TypeORM leaves a condition whose value is undefined out of the query.   *)
(***************************************************************************)
FindByEmail(email, tenantId) ==     \* mutant: the tenant is forgotten
  {u \in users : u.email = email}

FindByEmailAndTenantId(email, tenantId) ==
  {u \in users : u.email = email /\ tenantId \in {Nothing, u.tenantId}}

(***************************************************************************)
(* Tokens are signed by register and login.  A token holds the id of a     *)
(* user and her tenant.                                                    *)
(***************************************************************************)
Registered == {q \in Requests : request[q].op = "register" /\ response[q] = 201}
LoggedIn == {q \in Requests : request[q].op = "login" /\ response[q] = 200}

Tokens == Ids(FirstUsers) \cup Registered \cup {session[q] : q \in LoggedIn}

UserOf(m) == CHOOSE u \in users : u.id = m.token

(***************************************************************************)
(* The bodies, with the credentials and ids a client may send.  (To the    *)
(* code a wallet's id that is unknown is one of another tenant, and a      *)
(* tenant's that is unknown one of a tenant without this e-mail.)          *)
(***************************************************************************)
Messages ==
  [op : {"tenant"}, name : Names]
    \cup [op : {"register"}, tenantId : Ids(tenants) \cup {Nothing},
          email : Emails, password : Passwords]
    \cup [op : {"login"}, tenantId : Ids(tenants) \cup {Nothing},
          email : Emails, password : Passwords]
    \cup [op : {"wallet"}, token : Tokens \cup {Nothing},
          currency : Currencies]
    \cup [op : {"account"}, token : Tokens \cup {Nothing},
          walletId : Ids(wallets), currency : Currencies,
          provider : Providers]

FirstStep ==
  [tenant |-> "saveTenant", register |-> "apiKey", login |-> "login",
   wallet |-> "token", account |-> "token"]

Init ==
  /\ tenants = FirstTenants
  /\ users = FirstUsers
  /\ wallets = FirstWallets
  /\ accounts = FirstAccounts
  /\ request = [q \in Requests |-> [op |-> "none"]]
  /\ pc = [q \in Requests |-> "idle"]
  /\ number = [q \in Requests |-> Nothing]
  /\ session = [q \in Requests |-> Nothing]
  /\ response = [q \in Requests |-> 0]
  /\ known = [q \in Requests |-> {}]
  /\ faults = 0

Submit(q, m) ==
  /\ pc[q] = "idle"
  /\ request' = [request EXCEPT ![q] = m]
  /\ known' = [known EXCEPT ![q] = users]
  /\ Goto(q, FirstStep[m.op])
  /\ UNCHANGED <<tables, number, session, faults>>

-----------------------------------------------------------------------------
(***************************************************************************)
(* The end of an INSERT: nothing if the row clashes with one that is       *)
(* there; else it is stored, and the client hears of it unless the         *)
(* connection is lost first.                                               *)
(***************************************************************************)
Refused(q) ==
  /\ Respond(q, "ConflictException")
  /\ UNCHANGED <<tables, faults>>

Stored(q) ==
  \/ Respond(q, "Created") /\ UNCHANGED faults
  \/ Respond(q, "QueryFailedError") /\ CountFault

(***************************************************************************)
(* POST /tenants; the name is unique.                                      *)
(***************************************************************************)
TenantClash(m) == {t \in tenants : t.name = m.name}

SaveTenant(q) ==
  /\ pc[q] = "saveTenant"
  /\ IF TenantClash(request[q]) # {}
       THEN Refused(q)
       ELSE /\ tenants' = tenants \cup {[id |-> q, name |-> request[q].name]}
            /\ Stored(q)
            /\ UNCHANGED <<users, wallets, accounts>>
  /\ UNCHANGED <<request, number, session, known>>

(***************************************************************************)
(* POST /auth/register: TenantApiKeyGuard, the look-up of the e-mail, the  *)
(* INSERT; e-mails are unique in a tenant.                                 *)
(***************************************************************************)
ApiKeyGuard(q) ==
  /\ pc[q] = "apiKey"
  /\ IF request[q].tenantId \in Ids(tenants)
       THEN Goto(q, "findUser")
       ELSE Respond(q, "UnauthorizedException")
  /\ UNCHANGED <<tables, request, number, session, known, faults>>

FindNobody(q) ==                    \* mutant: register does not look
  /\ pc[q] = "findUser"
  /\ Goto(q, "saveUser")
  /\ UNCHANGED <<tables, request, number, session, known, faults>>

FindUser(q) ==
  /\ pc[q] = "findUser"
  /\ IF FindByEmailAndTenantId(request[q].email, request[q].tenantId) # {}
       THEN Respond(q, "BadRequestException")
       ELSE Goto(q, "saveUser")
  /\ UNCHANGED <<tables, request, number, session, known, faults>>

UserClash(m) == {u \in users : u.email = m.email /\ u.tenantId = m.tenantId}

NewUser(q) ==
  [id |-> q, tenantId |-> request[q].tenantId, email |-> request[q].email,
   password |-> request[q].password]

UpsertUser(q) ==                    \* mutant: the row that is there is updated
  /\ pc[q] = "saveUser"
  /\ users' = IF UserClash(request[q]) = {}
                THEN users \cup {NewUser(q)}
                ELSE {IF u \in UserClash(request[q])
                        THEN [u EXCEPT !.password = request[q].password]
                        ELSE u : u \in users}
  /\ Stored(q)
  /\ UNCHANGED <<tenants, wallets, accounts, request, number, session, known>>

SaveUser(q) ==
  /\ pc[q] = "saveUser"
  /\ IF UserClash(request[q]) # {}
       THEN Refused(q)
       ELSE /\ users' = users \cup {NewUser(q)}
            /\ Stored(q)
            /\ UNCHANGED <<tenants, wallets, accounts>>
  /\ UNCHANGED <<request, number, session, known>>

(***************************************************************************)
(* POST /auth/login.  The password is compared with that of the one user   *)
(* the look-up has returned.                                               *)
(***************************************************************************)
RefuseLogin(q) ==
  Respond(q, "UnauthorizedException") /\ UNCHANGED session

Login(q) ==
  /\ pc[q] = "login"
  /\ LET found == FindByEmailAndTenantId(request[q].email, request[q].tenantId)
     IN  \/ found = {} /\ RefuseLogin(q)
         \/ \E u \in found :
              IF u.password # request[q].password
                THEN RefuseLogin(q)
                ELSE /\ session' = [session EXCEPT ![q] = u.id]
                     /\ Respond(q, "OK")
  /\ UNCHANGED <<tables, request, number, known, faults>>

(***************************************************************************)
(* JwtAuthGuard and JwtStrategy.  Without a valid token the guard throws   *)
(* an Error that is no HttpException.                                      *)
(***************************************************************************)
TokenGuard(q) ==
  /\ pc[q] = "token"
  /\ IF request[q].token = Nothing
       THEN Respond(q, "Error")
       ELSE Goto(q, IF request[q].op = "wallet" THEN "saveWallet" ELSE "wallet")
  /\ UNCHANGED <<tables, request, number, session, known, faults>>

(***************************************************************************)
(* POST /wallets; a user has one wallet in each currency.                  *)
(***************************************************************************)
SameCurrency(m) ==                  \* mutant: an index on the currency
  {w \in wallets : w.currency = m.currency}

WalletClash(m) ==
  {w \in wallets : w.currency = m.currency /\ w.userId = m.token}

SaveWallet(q) ==
  /\ pc[q] = "saveWallet"
  /\ LET m == request[q]
     IN  IF WalletClash(m) # {}
           THEN Refused(q)
           ELSE /\ wallets' = wallets \cup
                     {[id |-> q, userId |-> m.token,
                       tenantId |-> UserOf(m).tenantId,
                       currency |-> m.currency]}
                /\ Stored(q)
                /\ UNCHANGED <<tenants, users, accounts>>
  /\ UNCHANGED <<request, number, session, known>>

-----------------------------------------------------------------------------
(***************************************************************************)
(* POST /virtual-accounts: check the wallet, look for an account of this   *)
(* wallet with this provider, ask the provider for one, store it.          *)
(***************************************************************************)
WalletAsked(m) ==
  {w \in wallets : w.id = m.walletId /\ w.tenantId = UserOf(m).tenantId}

AnyWalletOfTenant(m) ==             \* mutant: the owner is not compared
  \A w \in WalletAsked(m) : w.currency = m.currency

WalletIsProper(m) ==
  \A w \in WalletAsked(m) : w.userId = m.token /\ w.currency = m.currency

CheckWallet(q) ==
  /\ pc[q] = "wallet"
  /\ IF WalletAsked(request[q]) = {}
       THEN Respond(q, "NotFoundException")
     ELSE IF WalletIsProper(request[q])
       THEN Goto(q, "findAccount")
       ELSE Respond(q, "BadRequestException")
  /\ UNCHANGED <<tables, request, number, session, known, faults>>

FindAccount(q) ==
  /\ pc[q] = "findAccount"
  /\ IF \E a \in accounts :
          /\ a.walletId = request[q].walletId
          /\ a.currency = request[q].currency
          /\ a.provider = request[q].provider
       THEN Respond(q, "ConflictException")
       ELSE Goto(q, "provider")
  /\ UNCHANGED <<tables, request, number, session, known, faults>>

(***************************************************************************)
(* getProvider takes a provider's name in any case.  Paystack and          *)
(* Flutterwave give a random number with a prefix of their own; Stripe has *)
(* no virtual accounts.                                                    *)
(***************************************************************************)
Prefix == [PAYSTACK |-> "00", FLUTTERWAVE |-> "01"]

OpensAccounts(provider) == UpperCase[provider] \in DOMAIN Prefix

Numbers(provider) == {Prefix[UpperCase[provider]]} \X Suffixes

AskProvider(q) ==
  /\ pc[q] = "provider"
  /\ IF ~ OpensAccounts(request[q].provider)
       THEN Respond(q, "BadRequestException") /\ UNCHANGED number
       ELSE /\ \E n \in Numbers(request[q].provider) :
                 number' = [number EXCEPT ![q] = n]
            /\ Goto(q, "saveAccount")
  /\ UNCHANGED <<tables, request, session, known, faults>>

(***************************************************************************)
(* The number is unique, and so is the wallet: the column joins one        *)
(* account to one wallet.  The provider's name is stored as it was sent.   *)
(***************************************************************************)
NumberClash(q) ==                   \* mutant: wallet_id is not unique
  {a \in accounts : a.number = number[q]}

AccountClash(q) ==
  {a \in accounts : a.number = number[q] \/ a.walletId = request[q].walletId}

SaveAccount(q) ==
  /\ pc[q] = "saveAccount"
  /\ LET m == request[q]
     IN  IF AccountClash(q) # {}
           THEN Refused(q)
           ELSE /\ accounts' = accounts \cup
                     {[id |-> q, tenantId |-> UserOf(m).tenantId,
                       walletId |-> m.walletId, number |-> number[q],
                       currency |-> m.currency, provider |-> m.provider]}
                /\ Stored(q)
                /\ UNCHANGED <<tenants, users, wallets>>
  /\ UNCHANGED <<request, number, session, known>>

-----------------------------------------------------------------------------
(***************************************************************************)
(* A statement fails with its connection, and takes no effect.  The        *)
(* strategy of the API key catches everything.                             *)
(***************************************************************************)
Fail(q) ==
  /\ pc[q] \notin {"idle", "provider", "done"}
  /\ CountFault
  /\ Respond(q, IF pc[q] = "apiKey" THEN "UnauthorizedException"
                                    ELSE "QueryFailedError")
  /\ UNCHANGED <<tables, request, number, session, known>>

(***************************************************************************)
(* The process stops: no request that is under way is answered.            *)
(***************************************************************************)
Crash ==
  /\ \E q \in Requests : pc[q] \notin {"idle", "done"}
  /\ CountFault
  /\ pc' = [q \in Requests |-> IF pc[q] = "idle" THEN "idle" ELSE "done"]
  /\ UNCHANGED <<tables, request, number, session, response, known>>

Quiet ==
  /\ \A q \in Requests : pc[q] = "done"
  /\ UNCHANGED vars

Step(q) ==
  \/ SaveTenant(q)
  \/ ApiKeyGuard(q)
  \/ FindUser(q)
  \/ SaveUser(q)
  \/ Login(q)
  \/ TokenGuard(q)
  \/ SaveWallet(q)
  \/ CheckWallet(q)
  \/ FindAccount(q)
  \/ AskProvider(q)
  \/ SaveAccount(q)
  \/ Fail(q)

Next ==
  \/ \E q \in Requests : Step(q) \/ \E m \in Messages : Submit(q, m)
  \/ Crash
  \/ Quiet

Spec == Init /\ [][Next]_vars

-----------------------------------------------------------------------------
(***************************************************************************)
(* Every variable stays within its values; account numbers have a          *)
(* provider's form.                                                        *)
(***************************************************************************)
Steps ==
  {"idle", "saveTenant", "apiKey", "findUser", "saveUser", "login", "token",
   "saveWallet", "wallet", "findAccount", "provider", "saveAccount", "done"}

Bodies ==
  [op : {"none"}]
    \cup [op : {"tenant"}, name : Names]
    \cup [op : {"register", "login"}, email : Emails, password : Passwords,
          tenantId : RowIds(FirstTenants) \cup {Nothing}]
    \cup [op : {"wallet"}, token : RowIds(FirstUsers) \cup {Nothing},
          currency : Currencies]
    \cup [op : {"account"}, token : RowIds(FirstUsers) \cup {Nothing},
          walletId : RowIds(FirstWallets), currency : Currencies,
          provider : Providers]

TypeOK ==
  /\ Columns(tenants, users, wallets, accounts)
  /\ request \in [Requests -> Bodies]
  /\ pc \in [Requests -> Steps]
  /\ number \in [Requests -> {Nothing} \cup ({"00", "01"} \X Suffixes)]
  /\ session \in [Requests -> {Nothing} \cup Ids(users)]
  /\ known \in [Requests -> SUBSET users]
  /\ \A q \in Requests : pc[q] # "idle" => request[q].op \in DOMAIN FirstStep
  /\ response \in [Requests -> {0, 200, 201, 400, 401, 404, 409, 500}]
  /\ faults \in 0..MaxFaults

(***************************************************************************)
(* No row crosses the border of a tenant, and no account is opened for     *)
(* somebody else's wallet: a wallet is in its user's tenant; an account is *)
(* in the tenant and currency of its wallet, and was asked for by the      *)
(* wallet's user (jwt.strategy.ts, virtual-accounts.service.ts:38-52).     *)
(***************************************************************************)
TenantsAreIsolated ==
  /\ \A w \in wallets :
       \E u \in users : u.id = w.userId /\ u.tenantId = w.tenantId
  /\ \A a \in accounts :
       \E w \in wallets :
         /\ w.id = a.walletId /\ w.tenantId = a.tenantId
         /\ w.currency = a.currency
         /\ a.id \in Requests => request[a.id].token = w.userId

(***************************************************************************)
(* A 201 is the truth, in spite of the races: the row is there; a login    *)
(* that names the new user's tenant is compared with her, as she           *)
(* registered, and nobody else; a payment to the new account's number that *)
(* is announced under the name its provider was asked for by finds this    *)
(* account (findByAccountNumberAndProvider), and under no name another.  A *)
(* 401, 404, 409 or 500 is the truth as well: nothing was stored.          *)
(***************************************************************************)
FindByAccountNumberAndProvider(n, provider) ==
  {a \in accounts : a.number = n /\ a.provider = provider}

IsThere(q, m) ==
  \/ m.op = "tenant" /\ [id |-> q, name |-> m.name] \in tenants
  \/ m.op = "register" /\ FindByEmailAndTenantId(m.email, m.tenantId) = {NewUser(q)}
  \/ m.op = "wallet" /\ Ids(WalletClash(m)) = {q}
  \/ /\ m.op = "account"
     /\ Ids(FindByAccountNumberAndProvider(number[q], m.provider)) = {q}
     /\ \A p \in Providers :
          Ids(FindByAccountNumberAndProvider(number[q], p)) \subseteq {q}

AnswersAreTrue ==
  \A q \in Requests :
    /\ response[q] = 201 => IsThere(q, request[q])
    /\ response[q] \in {401, 404, 409, 500} =>
         q \notin UNION {Ids(table) : table \in {tenants, users, wallets, accounts}}

(***************************************************************************)
(* A 409 names a reason that exists: another row with the name, e-mail,    *)
(* currency, number or wallet that was asked for.                          *)
(***************************************************************************)
ConflictsHaveACause ==
  \A q \in Requests : response[q] = 409 =>
    LET m == request[q]
    IN  \/ m.op = "tenant" /\ \E t \in tenants : t.name = m.name
        \/ /\ m.op = "register"
           /\ \E u \in users : u.tenantId = m.tenantId /\ u.email = m.email
        \/ /\ m.op = "wallet"
           /\ \E w \in wallets : w.userId = m.token /\ w.currency = m.currency
        \/ /\ m.op = "account"
           /\ \E a \in accounts : a.walletId = m.walletId \/ a.number = number[q]

(***************************************************************************)
(* "User with this email already exists for this tenant" is a 400          *)
(* (auth.controller.ts).  So it is for every client that asks after the    *)
(* other has registered; only in a race is it a 409.                       *)
(***************************************************************************)
OnlyRacesGetConflict ==
  \A q \in Requests :
    request[q].op = "register" /\ response[q] = 409 =>
      \A u \in known[q] :
        u.email # request[q].email \/ u.tenantId # request[q].tenantId

(***************************************************************************)
(* Who was registered when she asked and names her tenant is not told that *)
(* her credentials are invalid, whoever else has her e-mail elsewhere.     *)
(* Who does not name it is told so only if somebody else has her e-mail,   *)
(* with another password.  Who is logged in is given the token of a user   *)
(* with her e-mail and password, in the tenant she names.                  *)
(***************************************************************************)
AreCredentialsOf(m, u) ==
  /\ u.email = m.email /\ u.password = m.password
  /\ m.tenantId # Nothing => u.tenantId = m.tenantId

KnownCredentialsWork ==
  \A q \in Requests : request[q].op = "login" =>
    LET m == request[q]
    IN  /\ response[q] = 401 /\ (\E u \in known[q] : AreCredentialsOf(m, u)) =>
             /\ m.tenantId = Nothing
             /\ \E u \in users : u.email = m.email /\ u.password # m.password
        /\ response[q] = 200 =>
             \E u \in users : u.id = session[q] /\ AreCredentialsOf(m, u)

(***************************************************************************)
(* Why all this holds: the tables keep their unique indexes, a row's id is *)
(* a request that is over, and what a request has checked on its way to an *)
(* INSERT is still so when it gets there, whatever others did meanwhile.   *)
(***************************************************************************)
RowsAreAnswered ==
  /\ FirstUsers \subseteq users
  /\ \A q \in Requests :
       q \in Ids(tenants) \cup Ids(users) \cup Ids(wallets) \cup Ids(accounts) =>
         pc[q] = "done" /\ response[q] \in {201, 400}

OperationOf ==
  [idle |-> {"none"}, saveTenant |-> {"tenant"}, apiKey |-> {"register"},
   findUser |-> {"register"}, saveUser |-> {"register"}, login |-> {"login"},
   token |-> {"wallet", "account"}, saveWallet |-> {"wallet"},
   wallet |-> {"account"}, findAccount |-> {"account"},
   provider |-> {"account"}, saveAccount |-> {"account"}]

ChecksStillHold ==
  \A q \in Requests :
    LET m == request[q]
    IN  /\ pc[q] # "done" => response[q] = 0 /\ m.op \in OperationOf[pc[q]]
        /\ m.op \in {"wallet", "account"} /\ m.token # Nothing =>
             m.token \in Ids(users)
        /\ pc[q] \in {"findUser", "saveUser"} => m.tenantId \in Ids(tenants)
        /\ pc[q] = "saveUser" =>
             \A u \in known[q] : u.email # m.email \/ u.tenantId # m.tenantId
        /\ pc[q] \in {"saveWallet", "wallet", "findAccount", "provider",
                      "saveAccount"} => m.token # Nothing
        /\ pc[q] \in {"findAccount", "provider", "saveAccount"} =>
             \E w \in wallets : /\ w.id = m.walletId /\ w.userId = m.token
                               /\ w.currency = m.currency
        /\ pc[q] = "saveAccount" => /\ OpensAccounts(m.provider)
                                   /\ number[q] \in Numbers(m.provider)

(***************************************************************************)
(* The invariant the proofs are by induction on.                           *)
(***************************************************************************)
IInv ==
  /\ TypeOK
  /\ UniqueIndexes(tenants, users, wallets, accounts)
  /\ RowsAreAnswered
  /\ ChecksStillHold
  /\ TenantsAreIsolated
  /\ AnswersAreTrue
  /\ ConflictsHaveACause
  /\ OnlyRacesGetConflict
  /\ KnownCredentialsWork
=============================================================================
