---------------------- MODULE TransactionsServiceLedger ----------------------
(***************************************************************************)
(* TransactionsService implements Ledger: for every set of requests, each  *)
(* commit posts one authorised request at the balances of that moment, and *)
(* no other step touches the committed tables.                             *)
(*                                                                         *)
(* The argument is the inductive invariant IInv.  The lemmas below take    *)
(* the kinds of step in turn: a rollback, a commit, an update of a         *)
(* balance, and the steps that touch no lock.                              *)
(***************************************************************************)
EXTENDS TransactionsServiceProofs

-----------------------------------------------------------------------------
(***************************************************************************)
(* The locks of a request depend on its own step and body only.            *)
(***************************************************************************)
LEMMA HeldUnchanged ==
  ASSUME NEW r \in Requests, pc'[r] = pc[r], input' = input
  PROVE  Held(r)' = Held(r)
  BY DEF Held

LEMMA OneStepMoves ==
  ASSUME TypeOK, NEW r \in Requests, NEW step, Goto(r, step)
  PROVE  /\ pc'[r] = step
         /\ \A s \in Requests \ {r} : pc'[s] = pc[s]
  BY DEF TypeOK, Goto

(***************************************************************************)
(* A step that changes no balance and no lock keeps what is said of them.  *)
(***************************************************************************)
LEMMA NoLockStep ==
  ASSUME IInv, NEW r \in Requests, NEW step, Goto(r, step),
         UNCHANGED <<balance, owner, newest, input>>,
         Held(r)' = Held(r)
  PROVE  BalancesInRange' /\ LocksFollowSteps' /\ NewestIsExplained'
<1>1. \A s \in Requests : Held(s)' = Held(s)
  BY OneStepMoves, HeldUnchanged DEF IInv
<1>2. BalancesInRange'
  BY DEF IInv, BalancesInRange
<1>3. LocksFollowSteps'
  BY <1>1 DEF IInv, LocksFollowSteps
<1>4. NewestIsExplained'
  BY DEF IInv, NewestIsExplained
<1> QED BY <1>2, <1>3, <1>4

(***************************************************************************)
(* A step of r outside ClaimKey and Commit keeps what is said of the keys, *)
(* if it claims none.                                                      *)
(***************************************************************************)
LEMMA NoKeyStep ==
  ASSUME IInv, NEW r \in Requests, NEW step, Goto(r, step),
         UNCHANGED <<idem, input>>,
         \A s \in Requests : found'[s] = {},
         \/ /\ newIdem' = newIdem
            /\ Claimed(r)' => Claimed(r)
         \/ /\ newIdem' = [newIdem EXCEPT ![r] = {}]
            /\ ~ Claimed(r)'
  PROVE  KeysAreClaimed'
<1>1. \A s \in Requests \ {r} : Claimed(s)' = Claimed(s)
  BY OneStepMoves DEF IInv, Claimed
<1>2. \A s \in Requests \ {r} : newIdem'[s] = newIdem[s]
  BY DEF IInv, TypeOK
<1>3. Claimed(r)' => Claimed(r) /\ newIdem' = newIdem
  OBVIOUS
<1>4. \A y \in newIdem'[r] : y \in newIdem[r]
  BY DEF IInv, TypeOK
<1>5. \A x \in idem' : x.id = x.key /\ x.status = "PROCESSED"
  BY DEF IInv, KeysAreClaimed
<1>6. ASSUME NEW s \in Requests
      PROVE  /\ \A y \in newIdem'[s] : y.key = input'[s].key
             /\ Claimed(s)' => /\ \E y \in newIdem'[s] : newIdem'[s] = {y}
                               /\ \A x \in idem' : x.key # input'[s].key
                               /\ \A q \in Requests \ {s} :
                                    Claimed(q)' => input'[q].key # input'[s].key
  <2>1. \A y \in newIdem'[s] : y.key = input'[s].key
    BY <1>2, <1>4 DEF IInv, KeysAreClaimed
  <2>2. ASSUME Claimed(s)'
        PROVE  /\ \E y \in newIdem'[s] : newIdem'[s] = {y}
               /\ \A x \in idem' : x.key # input'[s].key
               /\ \A q \in Requests \ {s} :
                    Claimed(q)' => input'[q].key # input'[s].key
    <3>1. Claimed(s) /\ newIdem'[s] = newIdem[s]
      BY <1>1, <1>2, <1>3, <2>2
    <3>2. \A q \in Requests : Claimed(q)' => Claimed(q)
      BY <1>1, <1>3
    <3> QED BY <3>1, <3>2 DEF IInv, KeysAreClaimed
  <2> QED BY <2>1, <2>2
<1> QED BY <1>5, <1>6 DEF KeysAreClaimed

(***************************************************************************)
(* What is said of the other requests' checks survives a step of r.        *)
(***************************************************************************)
LEMMA ChecksOfOthers ==
  ASSUME IInv, NEW r \in Requests, NEW step, Goto(r, step), input' = input,
         \A s \in Requests \ {r} : newTxns'[s] = newTxns[s],
         /\ step \in InTransactionAt \cup {"queued"} /\ input[r].op = "TRANSFER" =>
              input[r].walletId # input[r].dest
         /\ step \in {"debit", "credit", "record", "finish"} => MayUseWallets(input[r])
         /\ step = "debit" => input[r].op # "DEPOSIT"
         /\ step = "credit" => input[r].op # "WITHDRAWAL"
         /\ step = "finish" \/ (step = "credit" /\ input[r].op = "DEPOSIT") =>
              newTxns'[r] = CreatedRows(r, input[r], FinalStatus(input[r].op))
  PROVE  RequestsAreChecked'
<1>1. pc'[r] = step /\ \A s \in Requests \ {r} : pc'[s] = pc[s]
  BY OneStepMoves DEF IInv
<1>2. \A in : MayUseWallets(in)' = MayUseWallets(in)
  BY DEF MayUseWallets
<1>3. ASSUME NEW s \in Requests \ {r}
      PROVE  /\ pc'[s] \in InTransactionAt \cup {"queued"} /\ input'[s].op = "TRANSFER" =>
                  input'[s].walletId # input'[s].dest
             /\ pc'[s] \in {"debit", "credit", "record", "finish"} => MayUseWallets(input'[s])
             /\ pc'[s] = "debit" => input'[s].op # "DEPOSIT"
             /\ pc'[s] = "credit" => input'[s].op # "WITHDRAWAL"
             /\ pc'[s] = "finish" \/ (pc'[s] = "credit" /\ input'[s].op = "DEPOSIT") =>
                  newTxns'[s] = CreatedRows(s, input'[s], FinalStatus(input'[s].op))
  BY <1>1, <1>3 DEF IInv, RequestsAreChecked
<1> QED BY <1>1, <1>2, <1>3 DEF RequestsAreChecked

-----------------------------------------------------------------------------
(***************************************************************************)
(* A rollback gives back the committed version of every row it had locked. *)
(***************************************************************************)
LEMMA RollbackKeepsIInv ==
  ASSUME IInv, NEW r \in Requests, NEW why \in Answers, Rollback(r, why)
  PROVE  IInv'
<1>1. TypeOK'
  BY RollbackType DEF IInv
<1>2. /\ pc'[r] = "done" /\ input' = input /\ Goto(r, "done")
      /\ \A s \in Requests \ {r} : pc'[s] = pc[s]
  BY OneStepMoves DEF IInv, Rollback
<1>3. /\ Held(r)' = {}
      /\ \A s \in Requests \ {r} : Held(s)' = Held(s)
  <2>1. Held(r)' = {}
    BY <1>2 DEF Held
  <2> QED BY <1>2, <2>1, HeldUnchanged
<1>4. /\ balance' = balance
      /\ \A w \in Wallets :
           /\ owner'[w] = IF owner[w] = r THEN NoRequest ELSE owner[w]
           /\ newest'[w] = IF owner[w] = r THEN balance[w] ELSE newest[w]
  BY DEF IInv, TypeOK, Rollback, Unlock, tables
<1>5. BalancesInRange'
  BY <1>4 DEF IInv, BalancesInRange
<1>6. LocksFollowSteps'
  BY <1>3, <1>4, NoRequestAssumption DEF IInv, LocksFollowSteps
<1>7. NewestIsExplained'
  BY <1>2, <1>4 DEF IInv, NewestIsExplained
<1>8. KeysAreClaimed'
  <2>1. \A s \in Requests : found'[s] = {}
    BY DEF IInv, TypeOK, KeysAreClaimed, Rollback, DropUncommitted
  <2>2. newIdem' = [newIdem EXCEPT ![r] = {}] /\ idem' = idem
    BY DEF Rollback, DropUncommitted, tables
  <2>3. ~ Claimed(r)'
    BY <1>2 DEF Claimed
  <2> QED BY <1>2, <2>1, <2>2, <2>3, NoKeyStep
<1>9. RequestsAreChecked'
  <2>1. \A s \in Requests \ {r} : newTxns'[s] = newTxns[s]
    BY DEF IInv, TypeOK, Rollback, DropUncommitted
  <2> QED BY <1>2, <2>1, ChecksOfOthers DEF InTransactionAt
<1> QED BY <1>1, <1>5, <1>6, <1>7, <1>8, <1>9 DEF IInv

(***************************************************************************)
(* An update of a balance that is not rolled back locks one more row, and  *)
(* adds the request's own movement to the committed balance.               *)
(***************************************************************************)
LEMMA FreeRow ==
  ASSUME IInv, NEW r \in Requests, NEW w \in Wallets,
         \/ pc[r] = "debit"  /\ w = input[r].walletId
         \/ pc[r] = "credit" /\ w = Credited(input[r]),
         WaitsFor(r) = {}
  PROVE  owner[w] = NoRequest /\ newest[w] = balance[w]
<1>1. owner[w] \in {r, NoRequest}
  BY DEF WaitsFor
<1>2. w \notin Held(r)
  BY DEF IInv, RequestsAreChecked, Held, Credited, InTransactionAt
<1>3. owner[w] # r
  BY <1>2 DEF IInv, LocksFollowSteps
<1> QED BY <1>1, <1>3 DEF IInv, NewestIsExplained

LEMMA UpdateKeepsIInv ==
  ASSUME IInv, NEW r \in Requests, NEW w \in Wallets, NEW amount \in Int,
         NEW next \in {"credit", "record", "finish"},
         UpdateWalletBalance(r, w, amount, next),
         \/ pc[r] = "debit"  /\ w = input[r].walletId
         \/ pc[r] = "credit" /\ w = Credited(input[r]),
         amount = Movement(input[r], w),
         \A x \in Wallets : x = w \/ x \in Held(r) <=> x \in Held(r)',
         next = "credit" => input[r].op = "TRANSFER",
         next = "finish" =>
           newTxns[r] = CreatedRows(r, input[r], FinalStatus(input[r].op))
  PROVE  IInv'
<1> DEFINE updated == PlusAmount(newest[w], amount)
<1>1. CASE \E why \in {"overflow", "insufficient"} : Rollback(r, why)
  BY <1>1, RollbackKeepsIInv DEF Answers
<1>2. CASE ~ \E why \in {"overflow", "insufficient"} : Rollback(r, why)
  <2>1. /\ updated <= MaxBalance
        /\ ~ (amount < 0 /\ updated < 0)
        /\ owner' = [owner EXCEPT ![w] = r]
        /\ newest' = [newest EXCEPT ![w] = updated]
        /\ Goto(r, next)
        /\ UNCHANGED <<tables, newIdem, newTxns, input, found, answer>>
    <3>1. PlusAmount(newest[w], amount) \in Int
      BY PlusAmountType DEF IInv, TypeOK
    <3> QED BY <1>2, <3>1, MaxBalanceAssumption DEF UpdateWalletBalance
  <2>2. owner[w] = NoRequest /\ newest[w] = balance[w]
    BY FreeRow DEF UpdateWalletBalance
  <2>3. TypeOK'
    BY UpdateType DEF IInv, Steps, InTransactionAt
  <2>4. updated \in 0..MaxBalance
    <3>1. updated \in Int /\ newest[w] \in Nat
      BY PlusAmountType DEF IInv, TypeOK, BalancesInRange
    <3>2. amount >= 0 => updated >= 0
      BY <3>1, CreditIsNotNegative
    <3> HIDE DEF updated
    <3> QED BY <2>1, <3>1, <3>2, MaxBalanceAssumption
  <2> HIDE DEF updated
  <2>5. BalancesInRange'
    BY <2>1, <2>4 DEF IInv, TypeOK, BalancesInRange, tables
  <2>6. /\ pc'[r] = next
        /\ \A s \in Requests \ {r} : pc'[s] = pc[s] /\ Held(s)' = Held(s)
    BY <2>1, OneStepMoves, HeldUnchanged DEF IInv
  <2>7. LocksFollowSteps'
    <3>1. \A s \in Requests, x \in Wallets :
            owner'[x] = s <=> IF x = w THEN s = r ELSE owner[x] = s
      BY <2>1 DEF IInv, TypeOK
    <3>2. \A s \in Requests : w \notin Held(s)
      BY <2>2, NoRequestAssumption DEF IInv, LocksFollowSteps
    <3> QED BY <2>6, <3>1, <3>2 DEF IInv, LocksFollowSteps
  <2>8. NewestIsExplained'
    <3>1. newest'[w] = PlusAmount(balance'[w], Movement(input'[r], w))
      BY <2>1, <2>2 DEF IInv, TypeOK, tables, updated
    <3>2. owner'[w] = r /\ r # NoRequest
      BY <2>1, NoRequestAssumption DEF IInv, TypeOK
    <3>3. \A x \in Wallets \ {w} : /\ owner'[x] = owner[x]
                                   /\ newest'[x] = newest[x]
                                   /\ balance'[x] = balance[x]
      BY <2>1 DEF IInv, TypeOK, tables
    <3> QED BY <2>1, <3>1, <3>2, <3>3 DEF IInv, NewestIsExplained
  <2>9. KeysAreClaimed'
    <3>1. Claimed(r)' => Claimed(r)
      BY DEF Claimed
    <3> QED BY <2>1, <3>1, NoKeyStep DEF IInv, KeysAreClaimed, tables
  <2>10. RequestsAreChecked'
    <3>1. /\ MayUseWallets(input[r])
          /\ input[r].op = "TRANSFER" => input[r].walletId # input[r].dest
      BY DEF IInv, RequestsAreChecked, InTransactionAt
    <3> QED BY <2>1, <3>1, ChecksOfOthers
  <2> QED BY <2>3, <2>5, <2>7, <2>8, <2>9, <2>10 DEF IInv
<1> QED BY <1>1, <1>2

-----------------------------------------------------------------------------
(***************************************************************************)
(* The rows a commit leaves in idempotency_keys: those that were there and *)
(* the one of the request, PROCESSED.                                      *)
(***************************************************************************)
LEMMA CommittedKeyRows ==
  ASSUME IInv, NEW r \in Requests, pc[r] = "finish",
         input[r].key \in VisibleIds(r), Commit(r, ProcessedRows(r))
  PROVE  /\ \A x \in idem' : x.id = x.key /\ x.status = "PROCESSED"
         /\ {x.key : x \in idem'} = {x.key : x \in idem} \cup {input[r].key}
         /\ \E z : z.key = input[r].key /\ idem' = idem \cup {z}
<1> DEFINE k == input[r].key
<1>1. \A x \in idem : x.id = x.key /\ x.status = "PROCESSED" /\ x.key # k
  BY DEF IInv, KeysAreClaimed, Claimed
<1>2. \A y \in newIdem[r] : y.key = k
  BY DEF IInv, KeysAreClaimed
<1>3. newIdem[r] \subseteq IdempotencyRows
  BY DEF IInv, TypeOK
<1>4. PICK y \in newIdem[r] : newIdem[r] = {y}
  BY DEF IInv, KeysAreClaimed, Claimed
<1>5. y.id = k
  BY <1>1, <1>4 DEF VisibleIds
<1> DEFINE z == [y EXCEPT !.status = "PROCESSED"]
<1>6. z.id = k /\ z.key = k /\ z.status = "PROCESSED"
  BY <1>2, <1>3, <1>4, <1>5 DEF IdempotencyRows
<1>7. ProcessedRows(r) = {z}
  <2>1. {x \in idem \cup newIdem[r] : x.id = k} = {y}
    BY <1>1, <1>4, <1>5
  <2> QED BY <1>4, <2>1 DEF ProcessedRows
<1>8. idem' = {x \in idem : \A v \in {z} : x.key # v.key} \cup {z}
  BY <1>7 DEF Commit
<1> HIDE DEF z
<1>9. idem' = idem \cup {z}
  BY <1>1, <1>6, <1>8
<1> QED BY <1>1, <1>6, <1>9

(***************************************************************************)
(* A commit makes the newest versions the committed ones, and releases     *)
(* the locks and the key.                                                  *)
(***************************************************************************)
LEMMA CommitKeepsIInv ==
  ASSUME IInv, NEW r \in Requests, pc[r] = "finish",
         input[r].key \in VisibleIds(r), Commit(r, ProcessedRows(r))
  PROVE  IInv'
<1>1. TypeOK'
  BY CommitType, ProcessedRowsType DEF IInv
<1>2. /\ pc'[r] = "respond" /\ input' = input /\ Goto(r, "respond")
      /\ \A s \in Requests \ {r} : pc'[s] = pc[s]
  BY OneStepMoves DEF IInv, Commit
<1>3. /\ Held(r)' = {}
      /\ \A s \in Requests \ {r} : Held(s)' = Held(s)
  <2>1. Held(r)' = {}
    BY <1>2 DEF Held
  <2> QED BY <1>2, <2>1, HeldUnchanged
<1>4. /\ newest' = newest
      /\ \A w \in Wallets :
           /\ owner'[w] = IF owner[w] = r THEN NoRequest ELSE owner[w]
           /\ balance'[w] = IF owner[w] = r THEN newest[w] ELSE balance[w]
  BY DEF IInv, TypeOK, Commit, Unlock
<1>5. BalancesInRange'
  BY <1>4 DEF IInv, BalancesInRange
<1>6. LocksFollowSteps'
  BY <1>3, <1>4, NoRequestAssumption DEF IInv, LocksFollowSteps
<1>7. NewestIsExplained'
  BY <1>2, <1>4 DEF IInv, NewestIsExplained
<1>8. KeysAreClaimed'
  <2>1. \A s \in Requests : found'[s] = {}
    BY DEF IInv, TypeOK, KeysAreClaimed, Commit, DropUncommitted
  <2>2. /\ newIdem'[r] = {} /\ ~ Claimed(r)'
        /\ \A s \in Requests \ {r} : /\ newIdem'[s] = newIdem[s]
                                     /\ Claimed(s)' = Claimed(s)
    BY <1>2 DEF IInv, TypeOK, Commit, DropUncommitted, Claimed
  <2>3. /\ \A x \in idem' : x.id = x.key /\ x.status = "PROCESSED"
        /\ \A x \in idem' : \/ \E v \in idem : x.key = v.key
                            \/ x.key = input[r].key
    <3>1. \A x \in idem' : x.key \in {v.key : v \in idem'}
      OBVIOUS
    <3> QED BY <3>1, CommittedKeyRows
  <2>4. Claimed(r)
    BY DEF Claimed
  <2>5. ASSUME NEW s \in Requests, Claimed(s)'
        PROVE  /\ \E y \in newIdem'[s] : newIdem'[s] = {y}
               /\ \A x \in idem' : x.key # input'[s].key
               /\ \A q \in Requests \ {s} :
                    Claimed(q)' => input'[q].key # input'[s].key
    <3>1. s # r /\ Claimed(s) /\ newIdem'[s] = newIdem[s]
      BY <2>2, <2>5
    <3>2. input[r].key # input[s].key
      BY <2>4, <3>1 DEF IInv, KeysAreClaimed
    <3>3. \A x \in idem' : x.key # input'[s].key
      BY <1>2, <2>3, <3>1, <3>2 DEF IInv, KeysAreClaimed
    <3>4. \A q \in Requests : Claimed(q)' => Claimed(q)
      BY <2>2
    <3> QED BY <1>2, <3>1, <3>3, <3>4 DEF IInv, KeysAreClaimed
  <2>6. \A s \in Requests : \A y \in newIdem'[s] : y.key = input'[s].key
    BY <1>2, <2>2 DEF IInv, KeysAreClaimed
  <2> QED BY <2>1, <2>3, <2>5, <2>6 DEF KeysAreClaimed
<1>9. RequestsAreChecked'
  <2>1. \A s \in Requests \ {r} : newTxns'[s] = newTxns[s]
    BY DEF IInv, TypeOK, Commit, DropUncommitted
  <2> QED BY <1>2, <2>1, ChecksOfOthers DEF InTransactionAt
<1> QED BY <1>1, <1>5, <1>6, <1>7, <1>8, <1>9 DEF IInv

(***************************************************************************)
(* Claiming a key: no committed row has it, and nobody else claims it.     *)
(***************************************************************************)
LEMMA ClaimKeepsIInv ==
  ASSUME IInv, NEW r \in Requests, ClaimKey(r)
  PROVE  IInv'
<1>1. CASE Rollback(r, "conflict")
  BY <1>1, RollbackKeepsIInv DEF Answers
<1>2. CASE ~ Rollback(r, "conflict")
  <2>1. PICK id \in Keys \cup {NoKey} :
          newIdem' = [newIdem EXCEPT ![r] = PendingRows(r, id)]
    BY <1>2 DEF ClaimKey
  <2>2. /\ pc[r] = "claimKey"
        /\ WaitsFor(r) = {}
        /\ ~ (found[r] = {} /\ \E x \in idem : x.key = input[r].key)
        /\ Goto(r, "readWallets")
        /\ UNCHANGED <<tables, rowVersions, newTxns, input, found, answer>>
    BY <1>2 DEF ClaimKey
  <2>3. UNCHANGED <<balance, idem, owner, newest, newTxns, input, found>>
    BY <2>2 DEF tables, rowVersions
  <2>4. TypeOK'
    <3>1. newIdem' \in [Requests -> SUBSET IdempotencyRows]
      BY <2>1, PendingRowsType DEF IInv, TypeOK
    <3> QED BY <2>2, <3>1 DEF IInv, TypeOK, Goto, Steps, InTransactionAt,
                             tables, rowVersions
  <2>5. /\ pc'[r] = "readWallets"
        /\ \A s \in Requests \ {r} : pc'[s] = pc[s]
    BY <2>2, OneStepMoves DEF IInv
  <2>6. Held(r)' = Held(r)
    BY <2>2, <2>5 DEF Held
  <2>7. BalancesInRange' /\ LocksFollowSteps' /\ NewestIsExplained'
    BY <2>2, <2>3, <2>6, NoLockStep
  <2>8. KeysAreClaimed'
    <3>1. found[r] = {}
      BY DEF IInv, KeysAreClaimed
    <3>2. PICK y : newIdem'[r] = {y} /\ y.key = input[r].key
      <4> DEFINE row == [id |-> id, key |-> input[r].key,
                         tenantId |-> input[r].tenantId, status |-> "PENDING"]
      <4>1. PendingRows(r, id) = {row}
        BY <3>1 DEF PendingRows
      <4>2. row.key = input[r].key
        OBVIOUS
      <4>3. newIdem'[r] = {row}
        BY <2>1, <4>1 DEF IInv, TypeOK
      <4> QED BY <4>2, <4>3
    <3>3. \A x \in idem : x.key # input[r].key
      BY <2>2, <3>1
    <3>4. \A s \in Requests \ {r} : /\ Claimed(s)' = Claimed(s)
                                    /\ newIdem'[s] = newIdem[s]
      BY <2>1, <2>5 DEF IInv, TypeOK, Claimed
    <3>5. ASSUME NEW s \in Requests \ {r}, Claimed(s)
          PROVE  input[s].key # input[r].key
      <4>1. PICK v \in newIdem[s] : v.key = input[s].key
        BY <3>5 DEF IInv, KeysAreClaimed
      <4>2. \A x \in newIdem[s] : x.key # input[r].key
        BY <2>2 DEF WaitsFor
      <4> QED BY <4>1, <4>2
    <3>6. \A s \in Requests : \A x \in newIdem'[s] : x.key = input'[s].key
      BY <2>3, <3>2, <3>4 DEF IInv, KeysAreClaimed
    <3>7. ASSUME NEW s \in Requests, Claimed(s)'
          PROVE  /\ \E x \in newIdem'[s] : newIdem'[s] = {x}
                 /\ \A x \in idem' : x.key # input'[s].key
                 /\ \A q \in Requests \ {s} :
                      Claimed(q)' => input'[q].key # input'[s].key
      <4>1. CASE s = r
        BY <2>3, <3>2, <3>3, <3>4, <3>5, <4>1
      <4>2. CASE s # r
        BY <2>3, <3>4, <3>5, <3>7, <4>2 DEF IInv, KeysAreClaimed
      <4> QED BY <4>1, <4>2
    <3> QED BY <2>3, <3>6, <3>7 DEF IInv, KeysAreClaimed
  <2>9. RequestsAreChecked'
    <3>1. input[r].op = "TRANSFER" => input[r].walletId # input[r].dest
      BY <2>2 DEF IInv, RequestsAreChecked, InTransactionAt
    <3> QED BY <2>2, <2>3, <3>1, ChecksOfOthers
  <2> QED BY <2>4, <2>7, <2>8, <2>9 DEF IInv
<1> QED BY <1>1, <1>2

(***************************************************************************)
(* The steps that only move a request on.                                  *)
(***************************************************************************)
LEMMA QuietStepKeepsIInv ==
  ASSUME IInv, TypeOK', NEW r \in Requests, NEW step, Goto(r, step),
         UNCHANGED <<balance, idem, owner, newest, newIdem, input>>,
         \A s \in Requests : found'[s] = {},
         \A s \in Requests \ {r} : newTxns'[s] = newTxns[s],
         Held(r)' = Held(r),
         Claimed(r)' => Claimed(r),
         /\ step \in InTransactionAt \cup {"queued"} /\ input[r].op = "TRANSFER" =>
              input[r].walletId # input[r].dest
         /\ step \in {"debit", "credit", "record", "finish"} => MayUseWallets(input[r])
         /\ step = "debit" => input[r].op # "DEPOSIT"
         /\ step = "credit" => input[r].op # "WITHDRAWAL"
         /\ step = "finish" \/ (step = "credit" /\ input[r].op = "DEPOSIT") =>
              newTxns'[r] = CreatedRows(r, input[r], FinalStatus(input[r].op))
  PROVE  IInv'
<1>1. BalancesInRange' /\ LocksFollowSteps' /\ NewestIsExplained'
  BY NoLockStep
<1>2. KeysAreClaimed'
  BY NoKeyStep
<1>3. RequestsAreChecked'
  BY ChecksOfOthers
<1> QED BY <1>1, <1>2, <1>3 DEF IInv

(***************************************************************************)
(* Every step keeps the invariant.                                         *)
(***************************************************************************)
LEMMA IInvStep ==
  ASSUME IInv, [Next]_vars
  PROVE  IInv'
<1> USE DEF tables, rowVersions
<1>0. TypeOK' /\ \A r \in Requests : found[r] = {}
  BY TypeStep DEF IInv, KeysAreClaimed
<1>1. ASSUME NEW r \in Requests, Submit(r) PROVE IInv'
  <2>1. PICK step \in {"queued", "done"} :
          /\ Goto(r, step)
          /\ step = "queued" /\ input[r].op = "TRANSFER" =>
               input[r].walletId # input[r].dest
    BY <1>1 DEF Submit
  <2>2. Held(r)' = Held(r) /\ ~ Claimed(r)'
    BY <1>1, <2>1, OneStepMoves DEF IInv, Submit, Held, Claimed
  <2> QED BY <1>0, <1>1, <2>1, <2>2, QuietStepKeepsIInv DEF Submit, InTransactionAt
<1>2. ASSUME NEW r \in Requests, Begin(r) PROVE IInv'
  <2>1. Goto(r, "findKey")
    BY <1>2 DEF Begin
  <2>2. Held(r)' = Held(r) /\ ~ Claimed(r)'
    BY <1>2, <2>1, OneStepMoves DEF IInv, Begin, Held, Claimed
  <2>3. input[r].op = "TRANSFER" => input[r].walletId # input[r].dest
    BY <1>2 DEF IInv, Begin, RequestsAreChecked
  <2> QED BY <1>0, <1>2, <2>1, <2>2, <2>3, QuietStepKeepsIInv DEF Begin
<1>3. ASSUME NEW r \in Requests, FindKey(r) PROVE IInv'
  <2>1. CASE Rollback(r, "conflict")
    BY <2>1, RollbackKeepsIInv DEF Answers
  <2>2. CASE ~ Rollback(r, "conflict")
    <3>1. /\ Goto(r, "claimKey")
          /\ ~ \E x \in RowsOfKey(r) : x.status \in {"PROCESSED", "PENDING"}
          /\ found' = [found EXCEPT ![r] = RowsOfKey(r)]
      BY <1>3, <2>2 DEF FindKey
    <3>2. RowsOfKey(r) = {}
      BY <3>1 DEF RowsOfKey, IInv, KeysAreClaimed
    <3>3. \A s \in Requests : found'[s] = {}
      BY <1>0, <3>1, <3>2 DEF IInv, TypeOK
    <3>4. Held(r)' = Held(r) /\ ~ Claimed(r)'
      BY <1>3, <3>1, OneStepMoves DEF IInv, FindKey, Held, Claimed
    <3>5. input[r].op = "TRANSFER" => input[r].walletId # input[r].dest
      BY <1>3 DEF IInv, FindKey, RequestsAreChecked, InTransactionAt
    <3> QED BY <1>0, <1>3, <2>2, <3>1, <3>3, <3>4, <3>5, QuietStepKeepsIInv DEF FindKey
  <2> QED BY <2>1, <2>2
<1>4. ASSUME NEW r \in Requests, ClaimKey(r) PROVE IInv'
  BY <1>4, ClaimKeepsIInv
<1>5. ASSUME NEW r \in Requests, ReadWallets(r) PROVE IInv'
  <2>1. CASE Rollback(r, "refused") \/ Rollback(r, "insufficient")
    BY <2>1, RollbackKeepsIInv DEF Answers
  <2>2. CASE ~ (Rollback(r, "refused") \/ Rollback(r, "insufficient"))
    <3> DEFINE step == IF input[r].op = "DEPOSIT" THEN "record" ELSE "debit"
    <3>1. Goto(r, step) /\ MayUseWallets(input[r])
      BY <1>5, <2>2 DEF ReadWallets
    <3>2. Held(r)' = Held(r) /\ Claimed(r)
      BY <1>5, <3>1, OneStepMoves DEF IInv, ReadWallets, Held, Claimed
    <3>3. input[r].op = "TRANSFER" => input[r].walletId # input[r].dest
      BY <1>5 DEF IInv, ReadWallets, RequestsAreChecked, InTransactionAt
    <3> QED BY <1>0, <1>5, <2>2, <3>1, <3>2, <3>3, QuietStepKeepsIInv DEF ReadWallets
  <2> QED BY <2>1, <2>2
<1>6. ASSUME NEW r \in Requests, Debit(r) PROVE IInv'
  <2> DEFINE w == input[r].walletId
             next == IF input[r].op = "TRANSFER" THEN "credit" ELSE "record"
  <2>1. /\ pc[r] = "debit" /\ w \in Wallets /\ -input[r].amount \in Int
        /\ UpdateWalletBalance(r, w, -input[r].amount, next)
    BY <1>6, BodyType DEF IInv, Debit
  <2>2. CASE \E why \in {"overflow", "insufficient"} : Rollback(r, why)
    BY <2>2, RollbackKeepsIInv DEF Answers
  <2>3. CASE ~ \E why \in {"overflow", "insufficient"} : Rollback(r, why)
    <3>1. Goto(r, next) /\ input' = input
      BY <2>1, <2>3 DEF UpdateWalletBalance
    <3>2. input[r].op # "DEPOSIT" /\ input[r].op \in Operations
      BY <2>1, BodyType DEF IInv, RequestsAreChecked
    <3>3. Held(r) = {} /\ Held(r)' = {w}
      BY <2>1, <3>1, <3>2, OneStepMoves DEF IInv, Held, Touched
    <3>4. -input[r].amount = Movement(input[r], w)
      BY <3>2 DEF Movement
    <3> QED BY <2>1, <3>3, <3>4, UpdateKeepsIInv
  <2> QED BY <2>2, <2>3
<1>7. ASSUME NEW r \in Requests, Credit(r) PROVE IInv'
  <2> DEFINE w == Credited(input[r])
             next == IF input[r].op = "TRANSFER" THEN "record" ELSE "finish"
  <2>1. /\ pc[r] = "credit" /\ w \in Wallets /\ input[r].amount \in Int
        /\ UpdateWalletBalance(r, w, input[r].amount, next)
    BY <1>7, BodyType DEF IInv, Credit
  <2>2. CASE \E why \in {"overflow", "insufficient"} : Rollback(r, why)
    BY <2>2, RollbackKeepsIInv DEF Answers
  <2>3. CASE ~ \E why \in {"overflow", "insufficient"} : Rollback(r, why)
    <3>1. Goto(r, next) /\ input' = input
      BY <2>1, <2>3 DEF UpdateWalletBalance
    <3>2. /\ input[r].op \in {"DEPOSIT", "TRANSFER"}
          /\ input[r].op = "TRANSFER" => input[r].walletId # input[r].dest
          /\ input[r].op = "DEPOSIT" =>
               newTxns[r] = CreatedRows(r, input[r], FinalStatus(input[r].op))
      BY <2>1, BodyType DEF IInv, RequestsAreChecked, Operations, InTransactionAt
    <3>3. Held(r) = IF input[r].op = "TRANSFER" THEN {input[r].walletId} ELSE {}
      BY <2>1, <3>2 DEF Held
    <3>4. Held(r)' = Touched(input[r])
      BY <2>1, <3>1, <3>2, OneStepMoves DEF IInv, Held
    <3>5. input[r].amount = Movement(input[r], w)
      BY <3>2 DEF Movement, Credited
    <3>6. \A x \in Wallets : x = w \/ x \in Held(r) <=> x \in Held(r)'
      BY <3>2, <3>3, <3>4 DEF Touched, Credited
    <3> QED BY <2>1, <3>2, <3>5, <3>6, UpdateKeepsIInv
  <2> QED BY <2>2, <2>3
<1>8. ASSUME NEW r \in Requests, Record(r) PROVE IInv'
  <2>1. \/ \E why \in {"keyError", "refused", "providerFailed"} : Rollback(r, why)
        \/ Insert(r)
    BY <1>8 DEF Record
  <2>2. CASE Insert(r)
    <3> DEFINE step == IF input[r].op = "DEPOSIT" THEN "credit" ELSE "finish"
    <3>1. Goto(r, step) /\ input' = input
      BY <2>2 DEF Insert
    <3>2. /\ newTxns'[r] = CreatedRows(r, input[r], FinalStatus(input[r].op))
          /\ \A s \in Requests \ {r} : newTxns'[s] = newTxns[s]
      BY <2>2 DEF IInv, TypeOK, Insert
    <3>3. Held(r)' = Held(r) /\ Claimed(r)
      BY <1>8, <3>1, OneStepMoves DEF IInv, Record, Held, Claimed
    <3>4. /\ input[r].op = "TRANSFER" => input[r].walletId # input[r].dest
          /\ MayUseWallets(input[r])
      BY <1>8 DEF IInv, Record, RequestsAreChecked, InTransactionAt
    <3> QED BY <1>0, <2>2, <3>1, <3>2, <3>3, <3>4, QuietStepKeepsIInv DEF Insert
  <2> QED BY <2>1, <2>2, RollbackKeepsIInv DEF Answers
<1>9. ASSUME NEW r \in Requests, Finish(r) PROVE IInv'
  BY <1>9, RollbackKeepsIInv, CommitKeepsIInv DEF Finish, Answers
<1>10. ASSUME NEW r \in Requests, Respond(r) PROVE IInv'
  <2>1. Goto(r, "done")
    BY <1>10 DEF Respond
  <2>2. Held(r)' = Held(r) /\ ~ Claimed(r)'
    BY <1>10, <2>1, OneStepMoves DEF IInv, Respond, Held, Claimed
  <2> QED BY <1>0, <1>10, <2>1, <2>2, QuietStepKeepsIInv DEF Respond, InTransactionAt
<1>11. ASSUME NEW r \in Requests, DeadlockVictim(r) PROVE IInv'
  BY <1>11, RollbackKeepsIInv DEF DeadlockVictim, Answers
<1>12. CASE Crash
  <2>1. \A r \in Requests : /\ Held(r)' = {} /\ ~ Claimed(r)'
                           /\ pc'[r] \notin InTransactionAt \cup {"queued"}
    BY <1>12 DEF Crash, Held, Claimed, Waiting, InTransaction, InTransactionAt
  <2>2. BalancesInRange'
    BY <1>12 DEF IInv, Crash, BalancesInRange
  <2>3. LocksFollowSteps'
    BY <1>12, <2>1, NoRequestAssumption DEF Crash, LocksFollowSteps
  <2>4. NewestIsExplained'
    BY <1>12 DEF Crash, NewestIsExplained
  <2>5. KeysAreClaimed'
    BY <1>12, <2>1 DEF IInv, Crash, KeysAreClaimed
  <2>6. RequestsAreChecked'
    BY <2>1 DEF RequestsAreChecked, InTransactionAt
  <2> QED BY <1>0, <2>2, <2>3, <2>4, <2>5, <2>6 DEF IInv
<1>13. CASE Quiet \/ UNCHANGED vars
  <2>1. UNCHANGED vars
    BY <1>13 DEF Quiet
  <2>2. BalancesInRange' /\ NewestIsExplained'
    BY <2>1 DEF IInv, vars, BalancesInRange, NewestIsExplained
  <2>3. LocksFollowSteps'
    BY <2>1 DEF IInv, vars, LocksFollowSteps, Held
  <2>4. KeysAreClaimed' /\ RequestsAreChecked'
    BY <2>1 DEF IInv, vars, KeysAreClaimed, RequestsAreChecked, Claimed, MayUseWallets
  <2> QED BY <1>0, <2>2, <2>3, <2>4 DEF IInv
<1> QED BY <1>1, <1>2, <1>3, <1>4, <1>5, <1>6, <1>7, <1>8, <1>9, <1>10,
           <1>11, <1>12, <1>13 DEF Next, Step

(***************************************************************************)
(* The invariant holds in every reachable state, and with it no wallet is  *)
(* ever overdrawn.                                                         *)
(***************************************************************************)
THEOREM Invariance == Spec => []IInv
<1>1. Init => IInv
  <2> SUFFICES ASSUME Init PROVE IInv
    OBVIOUS
  <2>1. TypeOK
    <3>1. OpeningBalance \in [Wallets -> Int]
      BY OpeningAssumption, MaxBalanceAssumption
    <3> QED BY <3>1 DEF Init, TypeOK, Steps, Answers
  <2>2. BalancesInRange /\ NewestIsExplained
    BY OpeningAssumption DEF Init, BalancesInRange, NewestIsExplained
  <2>3. LocksFollowSteps
    BY NoRequestAssumption DEF Init, LocksFollowSteps, Held
  <2>4. KeysAreClaimed /\ RequestsAreChecked
    BY DEF Init, KeysAreClaimed, RequestsAreChecked, Claimed, InTransactionAt
  <2> QED BY <2>1, <2>2, <2>3, <2>4 DEF IInv
<1>2. IInv /\ [Next]_vars => IInv'
  BY IInvStep
<1> QED BY <1>1, <1>2, PTL DEF Spec

THEOREM NeverOverdrawn == Spec => []NoOverdraft
<1>1. IInv => NoOverdraft
  BY DEF IInv, BalancesInRange, NoOverdraft
<1> QED BY <1>1, Invariance, PTL

-----------------------------------------------------------------------------
(***************************************************************************)
(* Refinement.  The operators Ledger takes from WalletData are the ones    *)
(* the service uses.                                                       *)
(***************************************************************************)
LEMMA SameOperators ==
  /\ \A c, a : L!PlusAmount(c, a) = PlusAmount(c, a)
  /\ \A in, w : L!Movement(in, w) = Movement(in, w)
  /\ \A in : L!Touched(in) = Touched(in)
  /\ \A op : L!FinalStatus(op) = FinalStatus(op)
  /\ \A r, in, status : L!CreatedRows(r, in, status) = CreatedRows(r, in, status)
<1>1. \A c, a : L!PlusAmount(c, a) = PlusAmount(c, a)
  BY DEF L!PlusAmount, L!RoundToCents, PlusAmount, RoundToCents
<1>2. \A in, w : L!Movement(in, w) = Movement(in, w)
  BY DEF L!Movement, Movement
<1>3. \A in : L!Touched(in) = Touched(in)
  BY DEF L!Touched, Touched
<1>4. \A op : L!FinalStatus(op) = FinalStatus(op)
  BY DEF L!FinalStatus, FinalStatus
<1>5. \A r, in, status : L!CreatedRows(r, in, status) = CreatedRows(r, in, status)
  BY DEF L!CreatedRows, L!Row, L!RoundToCents, CreatedRows, Row, RoundToCents
<1> QED BY <1>1, <1>2, <1>3, <1>4, <1>5

(***************************************************************************)
(* A commit is Ledger's Post of the same request.                          *)
(***************************************************************************)
LEMMA CommitPosts ==
  ASSUME IInv, NEW r \in Requests, pc[r] = "finish",
         input[r].key \in VisibleIds(r), Commit(r, ProcessedRows(r))
  PROVE  L!Post(r, input[r])
<1> DEFINE in == input[r]
<1>1. /\ in.op \in Operations
      /\ in.walletId \in Wallets
      /\ in.op = "TRANSFER" => in.dest \in Wallets
  BY InputsAssumption DEF IInv, TypeOK, IsRequestBody
<1>2. Touched(in) \subseteq Wallets
  BY <1>1 DEF Touched
<1>3. /\ MayUseWallets(in)
      /\ in.op = "TRANSFER" => in.walletId # in.dest
      /\ newTxns[r] = CreatedRows(r, in, FinalStatus(in.op))
  BY DEF IInv, RequestsAreChecked, InTransactionAt
<1>4. \A w \in Wallets : owner[w] = r <=> w \in Touched(in)
  BY DEF IInv, LocksFollowSteps, Held
<1>5. \A w \in Touched(in) : /\ newest[w] = PlusAmount(balance[w], Movement(in, w))
                             /\ newest[w] \in 0..MaxBalance
  BY <1>2, <1>4, NoRequestAssumption DEF IInv, NewestIsExplained, BalancesInRange
<1>6. L!Authorised(in)
  BY <1>3, SameOperators DEF L!Authorised, MayUseWallets
<1>7. in.key \notin {x.key : x \in idem}
  BY DEF IInv, KeysAreClaimed, Claimed
<1>8. in.op # "DEPOSIT" => PlusAmount(balance[in.walletId], -in.amount) >= 0
  <2>1. in.walletId \in Touched(in)
    BY DEF Touched
  <2>2. in.op # "DEPOSIT" => Movement(in, in.walletId) = -in.amount
    BY DEF Movement
  <2> QED BY <1>5, <2>1, <2>2
<1>9. \A w \in Touched(in) : PlusAmount(balance[w], Movement(in, w)) <= MaxBalance
  BY <1>5, MaxBalanceAssumption
<1>10. balance' = [w \in Wallets |->
                    IF w \in Touched(in)
                      THEN PlusAmount(balance[w], Movement(in, w))
                      ELSE balance[w]]
  BY <1>4, <1>5 DEF Commit
<1>11. txns' = txns \cup CreatedRows(r, in, FinalStatus(in.op))
  BY <1>3 DEF Commit
<1>12. {x.key : x \in idem}' = {x.key : x \in idem} \cup {in.key}
  BY CommittedKeyRows
<1>13. in.op # "DEPOSIT" => L!PlusAmount(balance[in.walletId], -in.amount) >= 0
  BY <1>8, SameOperators
<1>14. \A w \in L!Touched(in) :
          L!PlusAmount(balance[w], L!Movement(in, w)) <= MaxBalance
  BY <1>9, SameOperators
<1>15. balance' = [w \in Wallets |->
                    IF w \in L!Touched(in)
                      THEN L!PlusAmount(balance[w], L!Movement(in, w))
                      ELSE balance[w]]
  BY <1>10, SameOperators
<1>16. txns' = txns \cup L!CreatedRows(r, in, L!FinalStatus(in.op))
  BY <1>11, SameOperators
<1> QED BY <1>3, <1>6, <1>7, <1>12, <1>13, <1>14, <1>15, <1>16 DEF L!Post

(***************************************************************************)
(* Whatever a request does, the committed tables stay as they are or its   *)
(* commit posts it.                                                        *)
(***************************************************************************)
LEMMA StillOrPosts ==
  ASSUME IInv, NEW r \in Requests, Submit(r) \/ Step(r)
  PROVE  \/ UNCHANGED <<balance, txns, idem>>
         \/ pc[r] = "finish" /\ L!Post(r, input[r])
<1> DEFINE Still == UNCHANGED <<balance, txns, idem>>
<1>1. \A why : Rollback(r, why) => Still
  BY DEF Rollback, tables
<1>2. CASE Submit(r) \/ Begin(r) \/ Respond(r)
  BY <1>2 DEF Submit, Begin, Respond, tables
<1>3. CASE FindKey(r) \/ ClaimKey(r) \/ ReadWallets(r)
  BY <1>1, <1>3 DEF FindKey, ClaimKey, ReadWallets, tables
<1>4. CASE Debit(r) \/ Credit(r)
  <2>1. \A w, amount, next : UpdateWalletBalance(r, w, amount, next) => Still
    BY <1>1 DEF UpdateWalletBalance, tables
  <2>2. Still
    <3> HIDE DEF Still
    <3> QED BY <1>4, <2>1 DEF Debit, Credit
  <2> QED BY <2>2
<1>5. CASE Record(r)
  BY <1>1, <1>5 DEF Record, Insert, tables
<1>6. CASE Finish(r)
  BY <1>1, <1>6, CommitPosts DEF Finish
<1>7. CASE DeadlockVictim(r)
  BY <1>1, <1>7 DEF DeadlockVictim
<1> QED BY <1>2, <1>3, <1>4, <1>5, <1>6, <1>7 DEF Step

LEMMA StepImplementsLedger ==
  ASSUME IInv, [Next]_vars
  PROVE  [L!Next]_(L!ledgerVars)
<1> DEFINE Still == UNCHANGED <<balance, txns, idem>>
<1>1. ASSUME Still PROVE UNCHANGED L!ledgerVars
  BY <1>1 DEF L!ledgerVars
<1>2. CASE Crash \/ Quiet \/ UNCHANGED vars
  <2>1. Still
    BY <1>2 DEF Crash, Quiet, vars, tables
  <2> QED BY <1>1, <2>1
<1>3. CASE \E r \in Requests : Submit(r) \/ Step(r)
  <2>1. PICK r \in Requests : Submit(r) \/ Step(r)
    BY <1>3
  <2>2. input[r] \in Inputs
    BY DEF IInv, TypeOK
  <2>3. Still \/ L!Post(r, input[r])
    BY <2>1, StillOrPosts
  <2>4. CASE Still
    BY <1>1, <2>4
  <2>5. CASE L!Post(r, input[r])
    BY <2>2, <2>5 DEF L!Next, L!Post
  <2> QED BY <2>3, <2>4, <2>5
<1> QED BY <1>2, <1>3 DEF Next

(***************************************************************************)
(* The code's transactions, with all their interleavings, lock waits,      *)
(* deadlocks and crashes, look from outside like Ledger.                   *)
(***************************************************************************)
THEOREM Refinement == Spec => ImplementsLedger
<1>1. Init => L!Init
  BY DEF Init, L!Init
<1>2. IInv /\ [Next]_vars => [L!Next]_(L!ledgerVars)
  BY StepImplementsLedger
<1> QED BY <1>1, <1>2, Invariance, PTL DEF Spec, ImplementsLedger, L!Spec
=============================================================================
