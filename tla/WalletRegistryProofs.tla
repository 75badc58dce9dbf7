-------------------------- MODULE WalletRegistryProofs --------------------------
(***************************************************************************)
(* What the registry guarantees for every set of requests, whatever the    *)
(* tables hold at first (within their indexes) and however the creations   *)
(* race, fail or are cut off.                                              *)
(***************************************************************************)
EXTENDS WalletRegistry, TLAPS

-----------------------------------------------------------------------------
(***************************************************************************)
(* Responses, bodies and the owner of a token.                             *)
(***************************************************************************)
LEMMA StatusCodes ==
  /\ HttpStatus["OK"] = 200 /\ HttpStatus["Created"] = 201
  /\ HttpStatus["BadRequestException"] = 400 /\ HttpStatus["QueryFailedError"] = 400
  /\ HttpStatus["UnauthorizedException"] = 401
  /\ HttpStatus["NotFoundException"] = 404
  /\ HttpStatus["ConflictException"] = 409 /\ HttpStatus["Error"] = 500
  BY DEF HttpStatus

(***************************************************************************)
(* The request is over, with one of some answers; or it goes on.  Nobody   *)
(* else's request is touched.                                              *)
(***************************************************************************)
Statuses == {0, 200, 201, 400, 401, 404, 409, 500}

Others(q) ==
  /\ \A p \in Requests \ {q} : pc'[p] = pc[p] /\ response'[p] = response[p]
  /\ pc' \in [Requests -> Steps]
  /\ response' \in [Requests -> Statuses]
  /\ faults' \in 0..MaxFaults

Ends(q, answers) ==
  /\ pc'[q] = "done" /\ response'[q] \in answers
  /\ Others(q)

GoesTo(q, steps) ==
  /\ pc'[q] \in steps /\ response'[q] = response[q]
  /\ Others(q)

LEMMA RespondsWith ==
  ASSUME TypeOK, NEW q \in Requests, faults' \in 0..MaxFaults
  PROVE  /\ Respond(q, "OK") => Ends(q, {200})
         /\ Respond(q, "Created") => Ends(q, {201})
         /\ Respond(q, "BadRequestException") \/ Respond(q, "QueryFailedError") =>
              Ends(q, {400})
         /\ Respond(q, "UnauthorizedException") => Ends(q, {401})
         /\ Respond(q, "NotFoundException") => Ends(q, {404})
         /\ Respond(q, "ConflictException") => Ends(q, {409})
         /\ Respond(q, "Error") => Ends(q, {500})
<1> USE DEF TypeOK, Respond, Steps, Ends, Others, Statuses
<1>1. Respond(q, "OK") => Ends(q, {200})
  BY StatusCodes
<1>2. Respond(q, "Created") => Ends(q, {201})
  BY StatusCodes
<1>3. Respond(q, "BadRequestException") => Ends(q, {400})
  BY StatusCodes
<1>4. Respond(q, "QueryFailedError") => Ends(q, {400})
  BY StatusCodes
<1>5. Respond(q, "UnauthorizedException") => Ends(q, {401})
  BY StatusCodes
<1>6. Respond(q, "NotFoundException") => Ends(q, {404})
  BY StatusCodes
<1>7. Respond(q, "ConflictException") => Ends(q, {409})
  BY StatusCodes
<1>8. Respond(q, "Error") => Ends(q, {500})
  BY StatusCodes
<1> QED BY <1>1, <1>2, <1>3, <1>4, <1>5, <1>6, <1>7, <1>8

LEMMA Goes ==
  ASSUME TypeOK, NEW q \in Requests, NEW step \in Steps, Goto(q, step),
         faults' \in 0..MaxFaults
  PROVE  GoesTo(q, {step})
  BY DEF TypeOK, Goto, GoesTo, Others, Statuses

LEMMA RefusedEnds ==
  ASSUME TypeOK, NEW q \in Requests, Refused(q)
  PROVE  Ends(q, {409}) /\ UNCHANGED tables
<1>1. faults' \in 0..MaxFaults
  BY DEF Refused, TypeOK
<1> QED BY <1>1, RespondsWith DEF Refused

LEMMA StoredEnds ==
  ASSUME TypeOK, NEW q \in Requests, Stored(q)
  PROVE  Ends(q, {201, 400})
<1>1. faults' \in 0..MaxFaults
  BY MaxFaultsAssumption DEF Stored, CountFault, TypeOK
<1>2. Ends(q, {201}) \/ Ends(q, {400})
  BY <1>1, RespondsWith DEF Stored
<1> QED BY <1>2 DEF Ends

LEMMA BodyFields ==
  ASSUME TypeOK, NEW q \in Requests
  PROVE  LET m == request[q]
         IN  /\ m.op \in {"none", "tenant", "register", "login", "wallet", "account"}
             /\ m.op = "tenant" => m.name \in Names
             /\ m.op = "register" => /\ m.email \in Emails
                                     /\ m.password \in Passwords
             /\ m.op \in {"wallet", "account"} => m.currency \in Currencies
             /\ m.op = "account" => /\ m.walletId \in RowIds(FirstWallets)
                                    /\ m.provider \in Providers
  BY DEF TypeOK, Bodies

LEMMA TokenOwner ==
  ASSUME NEW q \in Requests, request[q].token \in Ids(users)
  PROVE  UserOf(request[q]) \in users /\ UserOf(request[q]).id = request[q].token
  BY DEF Ids, UserOf

LEMMA FirstSteps ==
  /\ FirstStep["tenant"] = "saveTenant" /\ FirstStep["register"] = "apiKey"
  /\ FirstStep["login"] = "login"
  /\ FirstStep["wallet"] = "token" /\ FirstStep["account"] = "token"
  /\ DOMAIN FirstStep = {"tenant", "register", "login", "wallet", "account"}
  BY DEF FirstStep

LEMMA Prefixes ==
  ASSUME NEW provider, OpensAccounts(provider)
  PROVE  Numbers(provider) \subseteq {"00", "01"} \X Suffixes
<1>1. /\ Prefix["PAYSTACK"] = "00" /\ Prefix["FLUTTERWAVE"] = "01"
      /\ DOMAIN Prefix = {"PAYSTACK", "FLUTTERWAVE"}
  BY DEF Prefix
<1> QED BY <1>1 DEF OpensAccounts, Numbers

(***************************************************************************)
(* A token holds the id of a user who is there.                            *)
(***************************************************************************)
LEMMA TokensOfUsers ==
  ASSUME IInv
  PROVE  Tokens \subseteq Ids(users)
<1>1. Ids(FirstUsers) \subseteq Ids(users)
  BY DEF IInv, RowsAreAnswered, Ids
<1>2. ASSUME NEW q \in LoggedIn PROVE session[q] \in Ids(users)
  BY <1>2 DEF LoggedIn, IInv, KnownCredentialsWork, Ids
<1>3. ASSUME NEW q \in Registered PROVE q \in Ids(users)
  <2>1. IsThere(q, request[q]) /\ request[q].op = "register"
    BY <1>3 DEF Registered, IInv, AnswersAreTrue
  <2>2. NewUser(q) \in users
    BY <2>1 DEF IsThere, FindByEmailAndTenantId
  <2> QED BY <2>2 DEF NewUser, Ids
<1> QED BY <1>1, <1>2, <1>3 DEF Tokens

LEMMA Submitted ==
  ASSUME IInv, NEW m \in Messages
  PROVE  /\ m \in Bodies /\ m.op \in DOMAIN FirstStep
         /\ m.op = "register" => m.tenantId \in Ids(tenants) \cup {Nothing}
         /\ m.op \in {"wallet", "account"} /\ m.token # Nothing =>
              m.token \in Ids(users)
         /\ FirstStep[m.op] \in {"saveTenant", "apiKey", "login", "token"}
         /\ m.op \in OperationOf[FirstStep[m.op]]
<1>1. /\ Ids(tenants) \subseteq RowIds(FirstTenants)
      /\ Ids(users) \subseteq RowIds(FirstUsers)
      /\ Ids(wallets) \subseteq RowIds(FirstWallets)
  BY DEF IInv, TypeOK, Columns, Ids
<1> QED BY <1>1, TokensOfUsers, FirstSteps DEF Messages, Bodies, OperationOf

-----------------------------------------------------------------------------
(***************************************************************************)
(* What each action does, with the answers and the steps spelled out.      *)
(***************************************************************************)
LEMMA SaveTenantCases ==
  ASSUME IInv, NEW q \in Requests, SaveTenant(q)
  PROVE  /\ pc[q] = "saveTenant" /\ request[q].op = "tenant"
         /\ request[q].name \in Names
         /\ UNCHANGED <<users, wallets, accounts, request, number, session, known>>
         /\ \/ TenantClash(request[q]) # {} /\ tenants' = tenants /\ Ends(q, {409})
            \/ /\ TenantClash(request[q]) = {}
               /\ tenants' = tenants \cup {[id |-> q, name |-> request[q].name]}
               /\ Ends(q, {201, 400})
<1>1. pc[q] = "saveTenant" /\ request[q].op = "tenant" /\ request[q].name \in Names
  BY BodyFields DEF IInv, ChecksStillHold, OperationOf, SaveTenant
<1>2. CASE TenantClash(request[q]) # {}
  BY <1>1, <1>2, RefusedEnds DEF SaveTenant, IInv, tables
<1>3. CASE TenantClash(request[q]) = {}
  BY <1>1, <1>3, StoredEnds DEF SaveTenant, IInv
<1> QED BY <1>2, <1>3

LEMMA SaveUserCases ==
  ASSUME IInv, NEW q \in Requests, SaveUser(q)
  PROVE  /\ pc[q] = "saveUser" /\ request[q].op = "register"
         /\ request[q].tenantId \in Ids(tenants)
         /\ request[q].email \in Emails /\ request[q].password \in Passwords
         /\ UNCHANGED <<tenants, wallets, accounts, request, number, session, known>>
         /\ \/ UserClash(request[q]) # {} /\ users' = users /\ Ends(q, {409})
            \/ /\ UserClash(request[q]) = {}
               /\ users' = users \cup {NewUser(q)}
               /\ Ends(q, {201, 400})
<1>1. /\ pc[q] = "saveUser" /\ request[q].op = "register"
      /\ request[q].tenantId \in Ids(tenants)
      /\ request[q].email \in Emails /\ request[q].password \in Passwords
  BY BodyFields DEF IInv, ChecksStillHold, OperationOf, SaveUser
<1>2. CASE UserClash(request[q]) # {}
  BY <1>1, <1>2, RefusedEnds DEF SaveUser, IInv, tables
<1>3. CASE UserClash(request[q]) = {}
  BY <1>1, <1>3, StoredEnds DEF SaveUser, IInv
<1> QED BY <1>2, <1>3

NewWallet(q) ==
  [id |-> q, userId |-> request[q].token,
   tenantId |-> UserOf(request[q]).tenantId, currency |-> request[q].currency]

LEMMA SaveWalletCases ==
  ASSUME IInv, NEW q \in Requests, SaveWallet(q)
  PROVE  /\ pc[q] = "saveWallet" /\ request[q].op = "wallet"
         /\ request[q].currency \in Currencies
         /\ UserOf(request[q]) \in users /\ UserOf(request[q]).id = request[q].token
         /\ UNCHANGED <<tenants, users, accounts, request, number, session, known>>
         /\ \/ WalletClash(request[q]) # {} /\ wallets' = wallets /\ Ends(q, {409})
            \/ /\ WalletClash(request[q]) = {}
               /\ wallets' = wallets \cup {NewWallet(q)}
               /\ Ends(q, {201, 400})
<1>1. /\ pc[q] = "saveWallet" /\ request[q].op = "wallet"
      /\ request[q].currency \in Currencies
      /\ UserOf(request[q]) \in users /\ UserOf(request[q]).id = request[q].token
  BY BodyFields, TokenOwner DEF IInv, ChecksStillHold, OperationOf, SaveWallet
<1>2. CASE WalletClash(request[q]) # {}
  BY <1>1, <1>2, RefusedEnds DEF SaveWallet, IInv, tables
<1>3. CASE WalletClash(request[q]) = {}
  BY <1>1, <1>3, StoredEnds DEF SaveWallet, IInv, NewWallet
<1> QED BY <1>2, <1>3

NewAccount(q) ==
  [id |-> q, tenantId |-> UserOf(request[q]).tenantId,
   walletId |-> request[q].walletId, number |-> number[q],
   currency |-> request[q].currency, provider |-> request[q].provider]

LEMMA SaveAccountCases ==
  ASSUME IInv, NEW q \in Requests, SaveAccount(q)
  PROVE  /\ pc[q] = "saveAccount" /\ request[q].op = "account"
         /\ request[q].currency \in Currencies
         /\ request[q].walletId \in RowIds(FirstWallets)
         /\ request[q].provider \in Providers
         /\ number[q] \in {"00", "01"} \X Suffixes
         /\ UserOf(request[q]) \in users /\ UserOf(request[q]).id = request[q].token
         /\ UNCHANGED <<tenants, users, wallets, request, number, session, known>>
         /\ \/ AccountClash(q) # {} /\ accounts' = accounts /\ Ends(q, {409})
            \/ /\ AccountClash(q) = {}
               /\ accounts' = accounts \cup {NewAccount(q)}
               /\ Ends(q, {201, 400})
<1>1. /\ pc[q] = "saveAccount" /\ request[q].op = "account"
      /\ request[q].currency \in Currencies
      /\ request[q].walletId \in RowIds(FirstWallets)
      /\ request[q].provider \in Providers
      /\ number[q] \in {"00", "01"} \X Suffixes
  BY BodyFields, Prefixes DEF IInv, ChecksStillHold, OperationOf, SaveAccount
<1>2. UserOf(request[q]) \in users /\ UserOf(request[q]).id = request[q].token
  BY <1>1, TokenOwner DEF IInv, ChecksStillHold
<1>3. CASE AccountClash(q) # {}
  BY <1>1, <1>2, <1>3, RefusedEnds DEF SaveAccount, IInv, tables
<1>4. CASE AccountClash(q) = {}
  BY <1>1, <1>2, <1>4, StoredEnds DEF SaveAccount, IInv, NewAccount
<1> QED BY <1>3, <1>4

LoginEnds(q, found) ==
  \/ /\ Ends(q, {401}) /\ session' = session
     /\ found = {} \/ \E u \in found : u.password # request[q].password
  \/ /\ Ends(q, {200})
     /\ \E u \in found : /\ u.password = request[q].password
                        /\ session' = [session EXCEPT ![q] = u.id]

LEMMA AuthCases ==
  ASSUME IInv, NEW q \in Requests
  PROVE  /\ ApiKeyGuard(q) =>
              /\ pc[q] = "apiKey" /\ request[q].op = "register"
              /\ \/ Ends(q, {401})
                 \/ request[q].tenantId \in Ids(tenants) /\ GoesTo(q, {"findUser"})
         /\ FindUser(q) =>
              /\ pc[q] = "findUser" /\ request[q].op = "register"
              /\ \/ Ends(q, {400})
                 \/ /\ FindByEmailAndTenantId(request[q].email,
                                              request[q].tenantId) = {}
                    /\ GoesTo(q, {"saveUser"})
         /\ Login(q) =>
              /\ pc[q] = "login" /\ request[q].op = "login"
              /\ LoginEnds(q, FindByEmailAndTenantId(request[q].email,
                                                    request[q].tenantId))
         /\ TokenGuard(q) =>
              /\ pc[q] = "token" /\ request[q].op \in {"wallet", "account"}
              /\ \/ Ends(q, {500})
                 \/ /\ request[q].token # Nothing
                    /\ \/ request[q].op = "wallet" /\ GoesTo(q, {"saveWallet"})
                       \/ request[q].op = "account" /\ GoesTo(q, {"wallet"})
<1> USE DEF IInv, ChecksStillHold, OperationOf
<1>1. UNCHANGED faults => faults' \in 0..MaxFaults
  BY DEF TypeOK
<1> USE <1>1, RespondsWith, Goes DEF Steps
<1>2. ApiKeyGuard(q) =>
        /\ pc[q] = "apiKey" /\ request[q].op = "register"
        /\ \/ Ends(q, {401})
           \/ request[q].tenantId \in Ids(tenants) /\ GoesTo(q, {"findUser"})
  BY DEF ApiKeyGuard
<1>3. FindUser(q) =>
        /\ pc[q] = "findUser" /\ request[q].op = "register"
        /\ \/ Ends(q, {400})
           \/ /\ FindByEmailAndTenantId(request[q].email, request[q].tenantId) = {}
              /\ GoesTo(q, {"saveUser"})
  BY DEF FindUser
<1>4. Login(q) =>
        /\ pc[q] = "login" /\ request[q].op = "login"
        /\ LoginEnds(q, FindByEmailAndTenantId(request[q].email,
                                              request[q].tenantId))
  <2> DEFINE found == FindByEmailAndTenantId(request[q].email, request[q].tenantId)
  <2> HIDE DEF found
  <2>1. ASSUME Login(q)
        PROVE  /\ pc[q] = "login" /\ UNCHANGED faults
               /\ \/ found = {} /\ RefuseLogin(q)
                  \/ \E u \in found :
                       IF u.password # request[q].password
                         THEN RefuseLogin(q)
                         ELSE /\ session' = [session EXCEPT ![q] = u.id]
                              /\ Respond(q, "OK")
    BY <2>1, Zenon DEF Login, found
  <2>2. ASSUME Login(q), RefuseLogin(q)
        PROVE  Ends(q, {401}) /\ session' = session
    BY <2>1, <2>2 DEF RefuseLogin
  <2>3. ASSUME Login(q), Respond(q, "OK") PROVE Ends(q, {200})
    BY <2>1, <2>3
  <2>4. Login(q) => LoginEnds(q, found)
    BY <2>1, <2>2, <2>3 DEF LoginEnds
  <2> QED BY <2>1, <2>4 DEF found
<1>5. TokenGuard(q) =>
        /\ pc[q] = "token" /\ request[q].op \in {"wallet", "account"}
        /\ \/ Ends(q, {500})
           \/ /\ request[q].token # Nothing
              /\ \/ request[q].op = "wallet" /\ GoesTo(q, {"saveWallet"})
                 \/ request[q].op = "account" /\ GoesTo(q, {"wallet"})
  <2>1. ASSUME TokenGuard(q) PROVE UNCHANGED faults
    BY <2>1 DEF TokenGuard
  <2>2. ASSUME TokenGuard(q), request[q].token = Nothing PROVE Ends(q, {500})
    <3>1. Respond(q, "Error")
      BY <2>2, Zenon DEF TokenGuard
    <3> QED BY <2>1, <2>2, <3>1
  <2>3. ASSUME TokenGuard(q), request[q].token # Nothing, request[q].op = "wallet"
        PROVE  GoesTo(q, {"saveWallet"})
    <3>1. Goto(q, IF request[q].op = "wallet" THEN "saveWallet" ELSE "wallet")
      BY <2>3, Zenon DEF TokenGuard
    <3>2. Goto(q, "saveWallet")
      BY <2>3, <3>1 DEF Goto
    <3> QED BY <2>1, <2>3, <3>2
  <2>4. ASSUME TokenGuard(q), request[q].token # Nothing, request[q].op = "account"
        PROVE  GoesTo(q, {"wallet"})
    <3>1. request[q].op # "wallet"
      BY <2>4
    <3>2. Goto(q, IF request[q].op = "wallet" THEN "saveWallet" ELSE "wallet")
      BY <2>4, Zenon DEF TokenGuard
    <3>3. Goto(q, "wallet")
      BY <3>1, <3>2 DEF Goto
    <3> QED BY <2>1, <2>4, <3>3
  <2>5. TokenGuard(q) => pc[q] = "token" /\ request[q].op \in {"wallet", "account"}
    BY DEF TokenGuard
  <2> QED BY <2>2, <2>3, <2>4, <2>5
<1> QED BY <1>2, <1>3, <1>4, <1>5

LEMMA AccountCases ==
  ASSUME IInv, NEW q \in Requests
  PROVE  /\ CheckWallet(q) =>
              /\ pc[q] = "wallet" /\ request[q].op = "account"
              /\ request[q].token # Nothing
              /\ \/ Ends(q, {400, 404})
                 \/ /\ \E w \in WalletAsked(request[q]) :
                         /\ w.userId = request[q].token
                         /\ w.currency = request[q].currency
                    /\ GoesTo(q, {"findAccount"})
         /\ FindAccount(q) =>
              /\ pc[q] = "findAccount" /\ request[q].op = "account"
              /\ \/ /\ \E a \in accounts : a.walletId = request[q].walletId
                    /\ Ends(q, {409})
                 \/ GoesTo(q, {"provider"})
         /\ AskProvider(q) =>
              /\ pc[q] = "provider" /\ request[q].op = "account"
              /\ \/ Ends(q, {400}) /\ number' = number
                 \/ /\ OpensAccounts(request[q].provider)
                    /\ \E n \in Numbers(request[q].provider) :
                         number' = [number EXCEPT ![q] = n]
                    /\ GoesTo(q, {"saveAccount"})
         /\ Fail(q) =>
              /\ pc[q] \notin {"idle", "provider", "done"}
              /\ \/ pc[q] = "apiKey" /\ Ends(q, {401})
                 \/ Ends(q, {400})
<1> USE DEF IInv, ChecksStillHold, OperationOf
<1>1. UNCHANGED faults \/ CountFault => faults' \in 0..MaxFaults
  BY MaxFaultsAssumption DEF TypeOK, CountFault
<1> USE <1>1, RespondsWith, Goes DEF Steps
<1>2. CheckWallet(q) =>
        /\ pc[q] = "wallet" /\ request[q].op = "account"
        /\ request[q].token # Nothing
        /\ \/ Ends(q, {400, 404})
           \/ /\ \E w \in WalletAsked(request[q]) :
                   /\ w.userId = request[q].token
                   /\ w.currency = request[q].currency
              /\ GoesTo(q, {"findAccount"})
  <2>1. Ends(q, {404}) \/ Ends(q, {400}) => Ends(q, {400, 404})
    BY DEF Ends
  <2> QED BY <2>1 DEF CheckWallet, WalletIsProper
<1>3. FindAccount(q) =>
        /\ pc[q] = "findAccount" /\ request[q].op = "account"
        /\ \/ /\ \E a \in accounts : a.walletId = request[q].walletId
              /\ Ends(q, {409})
           \/ GoesTo(q, {"provider"})
  BY DEF FindAccount
<1>4. AskProvider(q) =>
        /\ pc[q] = "provider" /\ request[q].op = "account"
        /\ \/ Ends(q, {400}) /\ number' = number
           \/ /\ OpensAccounts(request[q].provider)
              /\ \E n \in Numbers(request[q].provider) :
                   number' = [number EXCEPT ![q] = n]
              /\ GoesTo(q, {"saveAccount"})
  <2>1. ASSUME AskProvider(q)
        PROVE  pc[q] = "provider" /\ request[q].op = "account" /\ UNCHANGED faults
    BY <2>1 DEF AskProvider
  <2>2. ASSUME AskProvider(q), ~ OpensAccounts(request[q].provider)
        PROVE  Ends(q, {400}) /\ number' = number
    <3>1. Respond(q, "BadRequestException") /\ number' = number
      BY <2>2, Zenon DEF AskProvider
    <3> QED BY <2>1, <2>2, <3>1
  <2>3. ASSUME AskProvider(q), OpensAccounts(request[q].provider)
        PROVE  /\ \E n \in Numbers(request[q].provider) :
                    number' = [number EXCEPT ![q] = n]
               /\ GoesTo(q, {"saveAccount"})
    <3>1. /\ Goto(q, "saveAccount")
          /\ \E n \in Numbers(request[q].provider) :
               number' = [number EXCEPT ![q] = n]
      BY <2>3, Zenon DEF AskProvider
    <3> QED BY <2>1, <2>3, <3>1
  <2> QED BY <2>1, <2>2, <2>3
<1>5. Fail(q) =>
        /\ pc[q] \notin {"idle", "provider", "done"}
        /\ \/ pc[q] = "apiKey" /\ Ends(q, {401})
           \/ Ends(q, {400})
  <2>1. ASSUME Fail(q) PROVE pc[q] \notin {"idle", "provider", "done"} /\ CountFault
    BY <2>1 DEF Fail
  <2>2. ASSUME Fail(q), pc[q] = "apiKey" PROVE Ends(q, {401})
    <3>1. Respond(q, "UnauthorizedException")
      BY <2>2, Zenon DEF Fail
    <3> QED BY <2>1, <2>2, <3>1
  <2>3. ASSUME Fail(q), pc[q] # "apiKey" PROVE Ends(q, {400})
    <3>1. Respond(q, IF pc[q] = "apiKey" THEN "UnauthorizedException"
                                         ELSE "QueryFailedError")
      BY <2>3, Zenon DEF Fail
    <3>2. Respond(q, "QueryFailedError")
      BY <2>3, <3>1 DEF Respond
    <3> QED BY <2>1, <2>3, <3>2
  <2> QED BY <2>1, <2>2, <2>3
<1> QED BY <1>2, <1>3, <1>4, <1>5

Reads(q) ==
  \/ ApiKeyGuard(q) \/ FindUser(q) \/ Login(q) \/ TokenGuard(q)
  \/ CheckWallet(q) \/ FindAccount(q) \/ AskProvider(q) \/ Fail(q)

LEMMA ReadsCases ==
  ASSUME IInv, NEW q \in Requests, Reads(q)
  PROVE  /\ pc[q] \notin {"idle", "done"} /\ Others(q)
         /\ UNCHANGED <<tenants, users, wallets, accounts, request, known>>
         /\ ~AskProvider(q) => number' = number
         /\ ~Login(q) => session' = session
<1>1. /\ UNCHANGED <<tenants, users, wallets, accounts, request, known>>
      /\ ~AskProvider(q) => number' = number
      /\ ~Login(q) => session' = session
  BY DEF Reads, ApiKeyGuard, FindUser, Login, TokenGuard, CheckWallet,
         FindAccount, AskProvider, Fail, tables
<1>2. pc[q] \notin {"idle", "done"} /\ Others(q)
  BY AuthCases, AccountCases DEF Reads, Ends, GoesTo, LoginEnds
<1> QED BY <1>1, <1>2

-----------------------------------------------------------------------------
(***************************************************************************)
(* Every variable keeps its type.                                          *)
(***************************************************************************)
LEMMA TypeStep ==
  ASSUME IInv, [Next]_vars
  PROVE  TypeOK'
<1> USE DEF IInv, TypeOK, Others, Statuses, Ends, GoesTo
<1>1. ASSUME NEW q \in Requests, NEW m \in Messages, Submit(q, m) PROVE TypeOK'
  BY <1>1, Submitted DEF Submit, Columns, tables, Goto, Steps
<1>2. ASSUME NEW q \in Requests, Reads(q) PROVE TypeOK'
  <2>1. number' \in [Requests -> {Nothing} \cup ({"00", "01"} \X Suffixes)]
    BY <1>2, ReadsCases, AccountCases, Prefixes
  <2>2. session' \in [Requests -> {Nothing} \cup Ids(users)]
    BY <1>2, ReadsCases, AuthCases DEF LoginEnds, FindByEmailAndTenantId, Ids
  <2> QED BY <1>2, <2>1, <2>2, ReadsCases DEF Columns, Ids
<1>3. ASSUME NEW q \in Requests, SaveTenant(q) PROVE TypeOK'
  BY <1>3, SaveTenantCases DEF Columns, RowIds
<1>4. ASSUME NEW q \in Requests, SaveUser(q) PROVE TypeOK'
  BY <1>4, SaveUserCases DEF NewUser, Columns, RowIds, Ids
<1>5. ASSUME NEW q \in Requests, SaveWallet(q) PROVE TypeOK'
  BY <1>5, SaveWalletCases DEF NewWallet, Columns, RowIds
<1>6. ASSUME NEW q \in Requests, SaveAccount(q) PROVE TypeOK'
  BY <1>6, SaveAccountCases DEF NewAccount, Columns, RowIds
<1>7. CASE Crash
  BY <1>7, MaxFaultsAssumption DEF Crash, CountFault, Columns, tables, Steps
<1>8. CASE UNCHANGED vars
  BY <1>8 DEF vars, Columns
<1> QED
  BY <1>1, <1>2, <1>3, <1>4, <1>5, <1>6, <1>7, <1>8 DEF Next, Step, Reads, Quiet

(***************************************************************************)
(* An INSERT goes through only if the index has no such entry; a new id is *)
(* a request that was not over.                                            *)
(***************************************************************************)
LEMMA IndexStep ==
  ASSUME IInv, [Next]_vars
  PROVE  UniqueIndexes(tenants, users, wallets, accounts)'
<1> USE DEF IInv, UniqueIndexes
<1>1. ASSUME NEW q \in Requests, NEW m \in Messages, Submit(q, m)
      PROVE  UniqueIndexes(tenants, users, wallets, accounts)'
  BY <1>1 DEF Submit, tables
<1>2. ASSUME NEW q \in Requests, SaveTenant(q)
      PROVE  UniqueIndexes(tenants, users, wallets, accounts)'
  BY <1>2, SaveTenantCases DEF TenantClash
<1>3. ASSUME NEW q \in Requests, SaveUser(q)
      PROVE  UniqueIndexes(tenants, users, wallets, accounts)'
  BY <1>3, SaveUserCases DEF UserClash, NewUser, RowsAreAnswered, Ids
<1>4. ASSUME NEW q \in Requests, SaveWallet(q)
      PROVE  UniqueIndexes(tenants, users, wallets, accounts)'
  BY <1>4, SaveWalletCases DEF WalletClash, NewWallet
<1>5. ASSUME NEW q \in Requests, SaveAccount(q)
      PROVE  UniqueIndexes(tenants, users, wallets, accounts)'
  BY <1>5, SaveAccountCases DEF AccountClash, NewAccount
<1>6. CASE Crash \/ UNCHANGED vars
  BY <1>6 DEF Crash, vars, tables
<1>7. ASSUME NEW q \in Requests, Reads(q)
      PROVE  UniqueIndexes(tenants, users, wallets, accounts)'
  BY <1>7, ReadsCases
<1> QED
  BY <1>1, <1>2, <1>3, <1>4, <1>5, <1>6, <1>7 DEF Next, Step, Reads, Quiet

LEMMA RowsStep ==
  ASSUME IInv, [Next]_vars
  PROVE  RowsAreAnswered'
<1> USE DEF IInv, TypeOK, RowsAreAnswered, Others, Ends
<1>1. ASSUME NEW q \in Requests, NEW m \in Messages, Submit(q, m)
      PROVE  RowsAreAnswered'
  BY <1>1 DEF Submit, tables, Goto
<1>2. ASSUME NEW q \in Requests, Reads(q) PROVE RowsAreAnswered'
  BY <1>2, ReadsCases
<1>3. ASSUME NEW q \in Requests, SaveTenant(q) PROVE RowsAreAnswered'
  BY <1>3, SaveTenantCases DEF Ids
<1>4. ASSUME NEW q \in Requests, SaveUser(q) PROVE RowsAreAnswered'
  BY <1>4, SaveUserCases DEF NewUser, Ids
<1>5. ASSUME NEW q \in Requests, SaveWallet(q) PROVE RowsAreAnswered'
  BY <1>5, SaveWalletCases DEF NewWallet, Ids
<1>6. ASSUME NEW q \in Requests, SaveAccount(q) PROVE RowsAreAnswered'
  BY <1>6, SaveAccountCases DEF NewAccount, Ids
<1>7. CASE Crash
  BY <1>7 DEF Crash, tables
<1>8. CASE UNCHANGED vars
  BY <1>8 DEF vars
<1> QED
  BY <1>1, <1>2, <1>3, <1>4, <1>5, <1>6, <1>7, <1>8 DEF Next, Step, Reads, Quiet

(***************************************************************************)
(* What has been checked stays so, for the tables only grow.               *)
(***************************************************************************)
LEMMA TablesGrow ==
  ASSUME IInv, [Next]_vars
  PROVE  /\ tenants \subseteq tenants' /\ users \subseteq users'
         /\ wallets \subseteq wallets' /\ accounts \subseteq accounts'
<1>1. ASSUME NEW q \in Requests, NEW m \in Messages, Submit(q, m)
      PROVE  UNCHANGED <<tenants, users, wallets, accounts>>
  BY <1>1 DEF Submit, tables
<1>2. CASE Crash \/ UNCHANGED vars
  BY <1>2 DEF Crash, vars, tables
<1> QED
  BY <1>1, <1>2, ReadsCases, SaveTenantCases, SaveUserCases, SaveWalletCases,
     SaveAccountCases DEF Next, Step, Reads, Quiet

LEMMA ChecksStep ==
  ASSUME IInv, [Next]_vars
  PROVE  ChecksStillHold'
<1> USE TablesGrow DEF IInv, TypeOK, ChecksStillHold, OperationOf, Others, Ends, GoesTo
<1>0. Ids(tenants) \subseteq Ids(tenants') /\ Ids(users) \subseteq Ids(users')
  BY DEF Ids
<1> USE <1>0
<1>1. ASSUME NEW q \in Requests, NEW m \in Messages, Submit(q, m)
      PROVE  ChecksStillHold'
  BY <1>1, Submitted, FirstSteps DEF Submit, tables, Goto
<1>2. ASSUME NEW q \in Requests,
             ApiKeyGuard(q) \/ FindUser(q) \/ Login(q) \/ TokenGuard(q)
      PROVE  ChecksStillHold'
  <2>1. /\ UNCHANGED <<tenants, users, wallets, request, known, number>>
        /\ Others(q)
    BY <1>2, ReadsCases, AuthCases, AccountCases DEF Reads
  <2>2. CASE pc'[q] = "done"
    BY <2>1, <2>2
  <2>3. CASE ApiKeyGuard(q) /\ pc'[q] # "done"
    BY <2>1, <2>3, AuthCases
  <2>4. CASE FindUser(q) /\ pc'[q] # "done"
    <3>1. /\ FindByEmailAndTenantId(request[q].email, request[q].tenantId) = {}
          /\ pc[q] = "findUser" /\ pc'[q] = "saveUser" /\ response'[q] = response[q]
      BY <2>4, AuthCases
    <3>2. \A u \in known[q] : \/ u.email # request[q].email
                              \/ u.tenantId # request[q].tenantId
      BY <3>1 DEF FindByEmailAndTenantId
    <3> QED BY <2>1, <3>1, <3>2
  <2>5. CASE Login(q) /\ pc'[q] # "done"
    BY <2>5, AuthCases DEF LoginEnds
  <2>6. CASE TokenGuard(q) /\ pc'[q] # "done"
    BY <2>1, <2>6, AuthCases
  <2> QED BY <1>2, <2>2, <2>3, <2>4, <2>5, <2>6
<1>3. ASSUME NEW q \in Requests, CheckWallet(q) \/ FindAccount(q) \/ Fail(q)
      PROVE  ChecksStillHold'
  BY <1>3, ReadsCases, AccountCases DEF Reads, WalletAsked
<1>4. ASSUME NEW q \in Requests, AskProvider(q) PROVE ChecksStillHold'
  BY <1>4, ReadsCases, AccountCases DEF Reads, WalletAsked
<1>5. ASSUME NEW q \in Requests, SaveTenant(q) PROVE ChecksStillHold'
  BY <1>5, SaveTenantCases
<1>6. ASSUME NEW q \in Requests, SaveUser(q) PROVE ChecksStillHold'
  BY <1>6, SaveUserCases
<1>7. ASSUME NEW q \in Requests, SaveWallet(q) PROVE ChecksStillHold'
  BY <1>7, SaveWalletCases
<1>8. ASSUME NEW q \in Requests, SaveAccount(q) PROVE ChecksStillHold'
  BY <1>8, SaveAccountCases
<1>9. CASE Crash
  BY <1>9 DEF Crash, tables
<1>10. CASE UNCHANGED vars
  BY <1>10 DEF vars
<1> QED
  BY <1>1, <1>2, <1>3, <1>4, <1>5, <1>6, <1>7, <1>8, <1>9, <1>10
  DEF Next, Step, Quiet

-----------------------------------------------------------------------------
(***************************************************************************)
(* Nothing crosses the border of a tenant: a wallet takes its tenant from  *)
(* its user; an account from the user who asked, who is the wallet's.      *)
(***************************************************************************)
LEMMA IsolationStep ==
  ASSUME IInv, [Next]_vars
  PROVE  TenantsAreIsolated'
<1> USE DEF IInv, TypeOK, TenantsAreIsolated
<1>1. ASSUME NEW q \in Requests, NEW m \in Messages, Submit(q, m)
      PROVE  TenantsAreIsolated'
  BY <1>1 DEF Submit, tables, RowsAreAnswered, Ids
<1>2. ASSUME NEW q \in Requests, Reads(q) PROVE TenantsAreIsolated'
  BY <1>2, ReadsCases
<1>3. ASSUME NEW q \in Requests, SaveTenant(q) \/ SaveUser(q)
      PROVE  TenantsAreIsolated'
  BY <1>3, SaveTenantCases, SaveUserCases
<1>4. ASSUME NEW q \in Requests, SaveWallet(q) PROVE TenantsAreIsolated'
  BY <1>4, SaveWalletCases DEF NewWallet
<1>5. ASSUME NEW q \in Requests, SaveAccount(q) PROVE TenantsAreIsolated'
  <2>1. CASE accounts' = accounts
    BY <1>5, <2>1, SaveAccountCases
  <2>2. CASE accounts' = accounts \cup {NewAccount(q)}
    <3>1. PICK w \in wallets : /\ w.id = request[q].walletId
                               /\ w.userId = request[q].token
                               /\ w.currency = request[q].currency
      BY <1>5, SaveAccountCases DEF ChecksStillHold
    <3>2. PICK u \in users : u.id = w.userId /\ u.tenantId = w.tenantId
      OBVIOUS
    <3>3. UserOf(request[q]) = u
      BY <1>5, <3>1, <3>2, SaveAccountCases DEF UniqueIndexes
    <3> QED BY <1>5, <2>2, <3>1, <3>2, <3>3, SaveAccountCases DEF NewAccount
  <2> QED BY <1>5, <2>1, <2>2, SaveAccountCases
<1>6. CASE Crash \/ UNCHANGED vars
  BY <1>6 DEF Crash, vars, tables
<1> QED
  BY <1>1, <1>2, <1>3, <1>4, <1>5, <1>6 DEF Next, Step, Reads, Quiet

(***************************************************************************)
(* An answer that was true stays true: the row is still there, and the     *)
(* indexes let no second one in.                                           *)
(***************************************************************************)
LEMMA UserFoundAlone ==
  ASSUME IInv, [Next]_vars, NEW q \in Requests, NewUser(q) \in users',
         request'[q] = request[q], request[q].tenantId \in RowIds(FirstTenants)
  PROVE  FindByEmailAndTenantId(request[q].email, request[q].tenantId)' = {NewUser(q)}
  BY IndexStep, NothingAssumption DEF UniqueIndexes, FindByEmailAndTenantId, NewUser

LEMMA TrueAnswersStay ==
  ASSUME IInv, [Next]_vars, NEW p \in Requests,
         IsThere(p, request[p]), request'[p] = request[p], number'[p] = number[p]
  PROVE  IsThere(p, request[p])'
<1> USE TablesGrow, IndexStep DEF IInv, UniqueIndexes, IsThere, Ids
<1>1. CASE request[p].op = "tenant"
  BY <1>1
<1>2. CASE request[p].op = "register"
  <2>1. /\ NewUser(p) \in users' /\ NewUser(p)' = NewUser(p)
        /\ request'[p] = request[p] /\ request[p].tenantId \in RowIds(FirstTenants)
    BY <1>2 DEF NewUser, FindByEmailAndTenantId, TypeOK, Columns
  <2> QED BY <1>2, <2>1, UserFoundAlone
<1>3. CASE request[p].op = "wallet"
  BY <1>3 DEF WalletClash
<1>4. CASE request[p].op = "account"
  BY <1>4 DEF FindByAccountNumberAndProvider
<1> QED BY <1>1, <1>2, <1>3, <1>4

LEMMA NewRowsAreThere ==
  ASSUME IInv, [Next]_vars, NEW q \in Requests,
         SaveTenant(q) \/ SaveUser(q) \/ SaveWallet(q) \/ SaveAccount(q),
         response'[q] = 201
  PROVE  IsThere(q, request[q])'
<1>0. ASSUME SaveUser(q)
      PROVE  FindByEmailAndTenantId(request[q].email, request[q].tenantId)'
               = {NewUser(q)}
  <2>1. /\ NewUser(q) \in users' /\ request' = request
        /\ request[q].tenantId \in Ids(tenants)
    BY <1>0, SaveUserCases, response'[q] = 201 DEF Ends
  <2>2. Ids(tenants) \subseteq RowIds(FirstTenants)
    BY DEF IInv, TypeOK, Columns, Ids
  <2> QED BY <2>1, <2>2, UserFoundAlone
<1> USE IndexStep DEF IInv, TypeOK, UniqueIndexes, IsThere, Ids, Ends
<1>1. CASE SaveTenant(q)
  BY <1>1, SaveTenantCases
<1>2. CASE SaveUser(q)
  <2>1. request'[q] = request[q] /\ request[q].op = "register"
    BY <1>2, SaveUserCases
  <2>2. NewUser(q)' = NewUser(q)
    BY <2>1 DEF NewUser
  <2> QED BY <1>0, <1>2, <2>1, <2>2
<1>3. CASE SaveWallet(q)
  <2>1. NewWallet(q) \in wallets' /\ request' = request /\ request[q].op = "wallet"
    BY <1>3, SaveWalletCases
  <2> QED BY <2>1 DEF NewWallet, WalletClash
<1>4. CASE SaveAccount(q)
  <2>1. /\ NewAccount(q) \in accounts' /\ request' = request /\ number' = number
        /\ request[q].op = "account"
    BY <1>4, SaveAccountCases
  <2> QED BY <2>1 DEF NewAccount, FindByAccountNumberAndProvider
<1> QED BY <1>1, <1>2, <1>3, <1>4

LEMMA AnswersStep ==
  ASSUME IInv, [Next]_vars
  PROVE  AnswersAreTrue'
<1> SUFFICES ASSUME NEW p \in Requests
             PROVE  /\ response'[p] = 201 => IsThere(p, request[p])'
                    /\ response'[p] \in {401, 404, 409, 500} =>
                         /\ p \notin Ids(tenants') /\ p \notin Ids(users')
                         /\ p \notin Ids(wallets') /\ p \notin Ids(accounts')
  BY DEF AnswersAreTrue
<1>1. response'[p] \in {401, 404, 409, 500} =>
        /\ p \notin Ids(tenants') /\ p \notin Ids(users')
        /\ p \notin Ids(wallets') /\ p \notin Ids(accounts')
  BY RowsStep DEF RowsAreAnswered
<1>2. ASSUME response'[p] = 201 PROVE IsThere(p, request[p])'
  <2> USE <1>2 DEF IInv, TypeOK, ChecksStillHold, AnswersAreTrue, Others, Ends, GoesTo
  <2>1. ASSUME NEW q \in Requests, NEW m \in Messages, Submit(q, m)
        PROVE  response[p] = 201 /\ request'[p] = request[p] /\ number'[p] = number[p]
    BY <2>1 DEF Submit, Goto
  <2>2. ASSUME NEW q \in Requests, Reads(q)
        PROVE  response[p] = 201 /\ request'[p] = request[p] /\ number'[p] = number[p]
    BY <2>2, ReadsCases, AuthCases, AccountCases DEF Reads, LoginEnds
  <2>3. ASSUME NEW q \in Requests,
               SaveTenant(q) \/ SaveUser(q) \/ SaveWallet(q) \/ SaveAccount(q),
               p # q
        PROVE  response[p] = 201 /\ request'[p] = request[p] /\ number'[p] = number[p]
    BY <2>3, SaveTenantCases, SaveUserCases, SaveWalletCases, SaveAccountCases
  <2>4. CASE Crash \/ UNCHANGED vars
    BY <2>4, TrueAnswersStay DEF Crash, vars
  <2>5. ASSUME response[p] = 201, request'[p] = request[p], number'[p] = number[p]
        PROVE  IsThere(p, request[p])'
    BY <2>5, TrueAnswersStay
  <2> QED
    BY <2>1, <2>2, <2>3, <2>4, <2>5, NewRowsAreThere DEF Next, Step, Reads, Quiet
<1> QED BY <1>1, <1>2

(***************************************************************************)
(* An answer a client already has, and what it was an answer to, no step   *)
(* changes; a new answer is that of the step's own request.                *)
(***************************************************************************)
LEMMA AnswersStay ==
  ASSUME IInv, [Next]_vars, NEW p \in Requests, response[p] # 0
  PROVE  /\ response'[p] = response[p] /\ request'[p] = request[p]
         /\ known'[p] = known[p] /\ number'[p] = number[p]
         /\ session'[p] = session[p]
<1> USE DEF IInv, TypeOK, ChecksStillHold, Others, Ends, GoesTo
<1>1. pc[p] = "done"
  OBVIOUS
<1>2. ASSUME NEW q \in Requests, NEW m \in Messages, Submit(q, m)
      PROVE  /\ response'[p] = response[p] /\ request'[p] = request[p]
             /\ known'[p] = known[p] /\ number'[p] = number[p]
             /\ session'[p] = session[p]
  BY <1>1, <1>2 DEF Submit, Goto
<1>3. ASSUME NEW q \in Requests, Reads(q)
      PROVE  /\ response'[p] = response[p] /\ request'[p] = request[p]
             /\ known'[p] = known[p] /\ number'[p] = number[p]
             /\ session'[p] = session[p]
  BY <1>1, <1>3, ReadsCases, AuthCases, AccountCases DEF Reads, LoginEnds
<1>4. ASSUME NEW q \in Requests,
             SaveTenant(q) \/ SaveUser(q) \/ SaveWallet(q) \/ SaveAccount(q)
      PROVE  /\ response'[p] = response[p] /\ request'[p] = request[p]
             /\ known'[p] = known[p] /\ number'[p] = number[p]
             /\ session'[p] = session[p]
  BY <1>1, <1>4, SaveTenantCases, SaveUserCases, SaveWalletCases, SaveAccountCases
<1>5. CASE Crash \/ UNCHANGED vars
  BY <1>5 DEF Crash, vars
<1> QED
  BY <1>2, <1>3, <1>4, <1>5 DEF Next, Step, Reads, Quiet

LEMMA NewAnswers ==
  ASSUME IInv, [Next]_vars, NEW p \in Requests, response[p] = 0, response'[p] # 0
  PROVE  /\ request'[p] = request[p] /\ known'[p] = known[p] /\ number'[p] = number[p]
         /\ response'[p] = 409 =>
              SaveTenant(p) \/ SaveUser(p) \/ SaveWallet(p) \/ SaveAccount(p)
              \/ FindAccount(p)
         /\ response'[p] \in {200, 401} => Login(p) \/ request[p].op # "login"
<1> USE DEF IInv, TypeOK, ChecksStillHold, Others, Ends, GoesTo
<1>1. ASSUME NEW q \in Requests, NEW m \in Messages, Submit(q, m) PROVE FALSE
  BY <1>1 DEF Submit, Goto
<1>2. CASE Crash \/ UNCHANGED vars
  BY <1>2 DEF Crash, vars
<1>3. ASSUME NEW q \in Requests, Step(q), q # p PROVE FALSE
  BY <1>3, ReadsCases, SaveTenantCases, SaveUserCases, SaveWalletCases,
     SaveAccountCases DEF Step, Reads
<1>4. ASSUME Reads(p)
      PROVE  /\ request'[p] = request[p] /\ known'[p] = known[p]
             /\ number'[p] = number[p]
             /\ response'[p] = 409 => FindAccount(p)
             /\ response'[p] \in {200, 401} => Login(p) \/ request[p].op # "login"
  BY <1>4, ReadsCases, AuthCases, AccountCases DEF Reads, OperationOf, LoginEnds
<1>5. ASSUME SaveTenant(p) \/ SaveUser(p) \/ SaveWallet(p) \/ SaveAccount(p)
      PROVE  /\ request'[p] = request[p] /\ known'[p] = known[p]
             /\ number'[p] = number[p] /\ response'[p] \notin {200, 401}
  BY <1>5, SaveTenantCases, SaveUserCases, SaveWalletCases, SaveAccountCases
<1> QED
  BY <1>1, <1>2, <1>3, <1>4, <1>5 DEF Next, Step, Reads, Quiet

LEMMA ConflictsStep ==
  ASSUME IInv, [Next]_vars
  PROVE  ConflictsHaveACause' /\ OnlyRacesGetConflict'
<1> USE TablesGrow DEF IInv, ConflictsHaveACause, OnlyRacesGetConflict
<1>1. ASSUME NEW p \in Requests, response'[p] = 409, response[p] = 0
      PROVE  LET m == request'[p]
             IN  /\ \/ m.op = "tenant" /\ \E t \in tenants' : t.name = m.name
                    \/ /\ m.op = "register"
                       /\ \E u \in users' :
                            u.tenantId = m.tenantId /\ u.email = m.email
                    \/ /\ m.op = "wallet"
                       /\ \E w \in wallets' :
                            w.userId = m.token /\ w.currency = m.currency
                    \/ /\ m.op = "account"
                       /\ \E a \in accounts' :
                            a.walletId = m.walletId \/ a.number = number'[p]
                 /\ m.op = "register" => 
                      \A u \in known'[p] : u.email # m.email \/ u.tenantId # m.tenantId
  <2> USE <1>1, NewAnswers DEF Ends
  <2>1. CASE SaveTenant(p)
    BY <2>1, SaveTenantCases DEF TenantClash
  <2>2. CASE SaveUser(p)
    BY <2>2, SaveUserCases DEF UserClash, ChecksStillHold
  <2>3. CASE SaveWallet(p)
    BY <2>3, SaveWalletCases DEF WalletClash
  <2>4. CASE SaveAccount(p)
    BY <2>4, SaveAccountCases DEF AccountClash
  <2>5. CASE FindAccount(p)
    BY <2>5, AccountCases DEF GoesTo
  <2> QED BY <2>1, <2>2, <2>3, <2>4, <2>5
<1>2. ASSUME NEW p \in Requests, response'[p] = 409, response[p] # 0
      PROVE  /\ response[p] = 409 /\ request'[p] = request[p]
             /\ known'[p] = known[p] /\ number'[p] = number[p]
  BY <1>2, AnswersStay
<1>3. ConflictsHaveACause'
  BY <1>1, <1>2
<1>4. OnlyRacesGetConflict'
  BY <1>1, <1>2
<1> QED BY <1>3, <1>4

LEMMA CredentialsStep ==
  ASSUME IInv, [Next]_vars
  PROVE  KnownCredentialsWork'
<1> SUFFICES ASSUME NEW p \in Requests, request'[p].op = "login"
             PROVE  /\ /\ response'[p] = 401
                       /\ \E u \in known'[p] : AreCredentialsOf(request'[p], u)
                       => /\ request'[p].tenantId = Nothing
                          /\ \E u \in users' : /\ u.email = request'[p].email
                                              /\ u.password # request'[p].password
                    /\ response'[p] = 200 =>
                         \E u \in users' : /\ u.id = session'[p]
                                          /\ AreCredentialsOf(request'[p], u)
  BY DEF KnownCredentialsWork, AreCredentialsOf
<1>1. CASE response[p] # 0
  BY <1>1, AnswersStay, TablesGrow DEF IInv, KnownCredentialsWork
<1>2. CASE response[p] = 0 /\ response'[p] \in {200, 401}
  <2>1. /\ request'[p] = request[p] /\ known'[p] = known[p]
        /\ Login(p) /\ users \subseteq users'
    BY <1>2, NewAnswers, TablesGrow
  <2> DEFINE found == FindByEmailAndTenantId(request[p].email, request[p].tenantId)
  <2>2. LoginEnds(p, found)
    BY <2>1, AuthCases
  <2>3. ASSUME response'[p] = 401, NEW u \in known[p], AreCredentialsOf(request[p], u)
        PROVE  /\ request[p].tenantId = Nothing
               /\ \E v \in users' : /\ v.email = request[p].email
                                   /\ v.password # request[p].password
    <3>1. u \in users /\ u \in found
      BY <2>3 DEF IInv, TypeOK, AreCredentialsOf, FindByEmailAndTenantId
    <3>2. PICK v \in found : v.password # request[p].password
      BY <2>2, <2>3, <3>1 DEF LoginEnds, Ends
    <3>3. v \in users /\ v.email = request[p].email
      BY DEF FindByEmailAndTenantId
    <3>4. request[p].tenantId = Nothing
      BY <2>3, <3>1, <3>2, <3>3
      DEF IInv, UniqueIndexes, AreCredentialsOf, FindByEmailAndTenantId
    <3> QED BY <2>1, <3>2, <3>3, <3>4
  <2>4. ASSUME response'[p] = 200
        PROVE  \E u \in users' : u.id = session'[p] /\ AreCredentialsOf(request[p], u)
    <3>1. PICK u \in found : /\ u.password = request[p].password
                            /\ session' = [session EXCEPT ![p] = u.id]
      BY <2>2, <2>4 DEF LoginEnds, Ends
    <3> QED BY <2>1, <3>1 DEF IInv, TypeOK, AreCredentialsOf, FindByEmailAndTenantId
  <2> QED BY <2>1, <2>3, <2>4
<1> QED BY <1>1, <1>2

-----------------------------------------------------------------------------
LEMMA InitIInv ==
  ASSUME Init
  PROVE  IInv
<1> USE FirstTablesAssumption, NewIdsAssumption, MaxFaultsAssumption DEF Init
<1>1. \A q \in Requests : /\ q \notin Ids(FirstTenants) /\ q \notin Ids(FirstUsers)
                          /\ q \notin Ids(FirstWallets) /\ q \notin Ids(FirstAccounts)
  OBVIOUS
<1>2. TypeOK
  BY DEF TypeOK, Bodies, Steps, Columns
<1>3. UniqueIndexes(tenants, users, wallets, accounts)
  OBVIOUS
<1>4. TenantsAreIsolated
  BY <1>1 DEF TenantsAreIsolated, SameTenant, Ids
<1>5. RowsAreAnswered
  BY <1>1 DEF RowsAreAnswered
<1>6. ChecksStillHold
  BY DEF ChecksStillHold, OperationOf
<1>7. AnswersAreTrue /\ ConflictsHaveACause
  BY DEF AnswersAreTrue, ConflictsHaveACause
<1>8. OnlyRacesGetConflict /\ KnownCredentialsWork
  BY DEF OnlyRacesGetConflict, KnownCredentialsWork
<1> QED BY <1>2, <1>3, <1>4, <1>5, <1>6, <1>7, <1>8 DEF IInv

(***************************************************************************)
(* The invariant holds in every reachable state: the indexes, the rows and *)
(* the checks above, with every answer that was given about them.          *)
(***************************************************************************)
THEOREM RegistryInvariance == Spec => []IInv
<1>1. Init => IInv
  BY InitIInv
<1>2. IInv /\ [Next]_vars => IInv'
  BY TypeStep, IndexStep, RowsStep, ChecksStep, IsolationStep, AnswersStep,
     ConflictsStep, CredentialsStep DEF IInv
<1> QED BY <1>1, <1>2, PTL DEF Spec

(***************************************************************************)
(* Every variable keeps its type: account numbers have a provider's form,  *)
(* and a request's tenant, token and wallet were once in a table.          *)
(***************************************************************************)
THEOREM RegistryTypes == Spec => []TypeOK
<1>1. IInv => TypeOK
  BY DEF IInv
<1> QED BY <1>1, RegistryInvariance, PTL

(***************************************************************************)
(* No row crosses the border of a tenant, and no account is opened for     *)
(* somebody else's wallet (jwt.strategy.ts, virtual-accounts.service.ts).  *)
(***************************************************************************)
THEOREM TenantIsolation == Spec => []TenantsAreIsolated
<1>1. IInv => TenantsAreIsolated
  BY DEF IInv
<1> QED BY <1>1, RegistryInvariance, PTL

(***************************************************************************)
(* A 201 names a row that is there: the only user a login that names her   *)
(* tenant is compared with, the only account a payment to its number       *)
(* finds, if the provider's name is spelled as it was when the account was *)
(* opened.  After a 401, 404, 409 or 500 nothing was stored.               *)
(***************************************************************************)
THEOREM CreationsTrue == Spec => []AnswersAreTrue
<1>1. IInv => AnswersAreTrue
  BY DEF IInv
<1> QED BY <1>1, RegistryInvariance, PTL

(***************************************************************************)
(* A 409 names a reason that exists.                                       *)
(***************************************************************************)
THEOREM ConflictsJustified == Spec => []ConflictsHaveACause
<1>1. IInv => ConflictsHaveACause
  BY DEF IInv
<1> QED BY <1>1, RegistryInvariance, PTL

(***************************************************************************)
(* Who registers an e-mail that was taken when she asked is sent a 400,    *)
(* never a 409 (auth.controller.ts).                                       *)
(***************************************************************************)
THEOREM DuplicatesAreBadRequests == Spec => []OnlyRacesGetConflict
<1>1. IInv => OnlyRacesGetConflict
  BY DEF IInv
<1> QED BY <1>1, RegistryInvariance, PTL

(***************************************************************************)
(* Who was registered when she asked and names her tenant is let in; who   *)
(* does not name it is refused only if somebody else has her e-mail and    *)
(* another password; whoever is let in has given the credentials, and the  *)
(* tenant if any, of the user her token is for.                            *)
(***************************************************************************)
THEOREM LoginsWork == Spec => []KnownCredentialsWork
<1>1. IInv => KnownCredentialsWork
  BY DEF IInv
<1> QED BY <1>1, RegistryInvariance, PTL
=============================================================================
