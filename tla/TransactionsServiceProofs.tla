---------------------- MODULE TransactionsServiceProofs ----------------------
(***************************************************************************)
(* What TransactionsService guarantees for every set of requests, wallets  *)
(* and keys, every pool size and every rounding unit.                      *)
(***************************************************************************)
EXTENDS TransactionsService, TLAPS

-----------------------------------------------------------------------------
(***************************************************************************)
(* Rounding, as updateWalletBalance uses it: it yields a whole number of   *)
(* cents, and money added to a wallet that is not overdrawn does not       *)
(* overdraw it.                                                            *)
(***************************************************************************)
LEMMA RoundToCentsType ==
  ASSUME NEW t \in Int
  PROVE  RoundToCents(t) \in Int
  BY ScaleAssumption DEF RoundToCents

LEMMA RoundToCentsNonNegative ==
  ASSUME NEW t \in Nat
  PROVE  RoundToCents(t) >= 0
<1> DEFINE n == 2 * t + Scale
           d == 2 * Scale
<1>1. n \in Nat /\ d \in Nat /\ d > 0
  BY ScaleAssumption
<1>2. n \div d >= 0
  <2> HIDE DEF n, d
  <2> QED BY <1>1
<1> QED BY <1>2 DEF RoundToCents

LEMMA PlusAmountType ==
  ASSUME NEW c \in Int, NEW a \in Int
  PROVE  PlusAmount(c, a) \in Int
<1>1. c * Scale + a \in Int
  BY ScaleAssumption
<1> QED BY <1>1, RoundToCentsType DEF PlusAmount

LEMMA CreditIsNotNegative ==
  ASSUME NEW c \in Nat, NEW a \in Nat
  PROVE  PlusAmount(c, a) >= 0
<1>1. c * Scale + a \in Nat
  BY ScaleAssumption
<1> QED BY <1>1, RoundToCentsNonNegative DEF PlusAmount

(***************************************************************************)
(* The quotient of a division is determined by its remainder being one.    *)
(***************************************************************************)
LEMMA QuotientIsUnique ==
  ASSUME NEW n \in Int, NEW d \in Nat \ {0}, NEW q \in Int,
         q * d <= n, n < q * d + d
  PROVE  n \div d = q
<1> DEFINE p == n \div d
<1>1. p \in Int /\ p * d <= n /\ n < p * d + d
  OBVIOUS
<1> HIDE DEF p
<1>2. q * d < p * d + d /\ p * d < q * d + d
  BY <1>1
<1>3. ASSUME q > p PROVE FALSE
  <2>1. q * d >= (p + 1) * d
    BY <1>1, <1>3
  <2>2. (p + 1) * d = p * d + d
    BY <1>1
  <2> QED BY <1>1, <1>2, <2>1, <2>2
<1>4. ASSUME p > q PROVE FALSE
  <2>1. p * d >= (q + 1) * d
    BY <1>1, <1>4
  <2>2. (q + 1) * d = q * d + d
    BY <1>1
  <2> QED BY <1>1, <1>2, <2>1, <2>2
<1> QED BY <1>1, <1>3, <1>4 DEF p

(***************************************************************************)
(* Rounding yields the nearest number of cents, half a cent going up, and  *)
(* that determines it.                                                     *)
(***************************************************************************)
LEMMA RoundedBounds ==
  ASSUME NEW t \in Nat
  PROVE  /\ 2 * RoundToCents(t) * Scale <= 2 * t + Scale
         /\ 2 * t < 2 * RoundToCents(t) * Scale + Scale
<1> DEFINE n == 2 * t + Scale
           d == 2 * Scale
           q == n \div d
<1>1. n \in Int /\ d \in Nat \ {0}
  BY ScaleAssumption
<1>2. q \in Int /\ q * d <= n /\ n < q * d + d
  <2> HIDE DEF n, d
  <2> QED BY <1>1
<1>3. RoundToCents(t) = q
  BY DEF RoundToCents
<1> HIDE DEF q
<1>4. q * d = 2 * q * Scale
  BY <1>2, ScaleAssumption
<1> QED BY <1>2, <1>3, <1>4, ScaleAssumption

LEMMA NearestPositive ==
  ASSUME NEW t \in Nat, NEW q \in Int,
         2 * q * Scale <= 2 * t + Scale,
         2 * t < 2 * q * Scale + Scale
  PROVE  RoundToCents(t) = q
<1> DEFINE n == 2 * t + Scale
           d == 2 * Scale
<1>1. n \in Int /\ d \in Nat \ {0}
  BY ScaleAssumption
<1>2. q * d <= n /\ n < q * d + d
  BY ScaleAssumption
<1>3. n \div d = q
  <2> HIDE DEF n, d
  <2> QED BY <1>1, <1>2, QuotientIsUnique
<1> QED BY <1>3 DEF RoundToCents

(***************************************************************************)
(* Rounding a whole number of cents and an amount rounds the amount, when  *)
(* it is added; when it is subtracted, unless the amount ends in half a    *)
(* cent, which both the debit and the row that records it would round up.  *)
(***************************************************************************)
LEMMA CreditedExactly ==
  ASSUME NEW c \in Nat, NEW a \in Nat
  PROVE  RoundToCents(c * Scale + a) = c + RoundToCents(a)
<1> DEFINE q == RoundToCents(a)
           m == q * Scale
           s == c * Scale
<1>1. q \in Int
  BY ScaleAssumption DEF RoundToCents
<1>2. 2 * m <= 2 * a + Scale /\ 2 * a < 2 * m + Scale
  BY RoundedBounds, <1>1, ScaleAssumption
<1> HIDE DEF q
<1>3. m \in Int /\ s \in Nat /\ 2 * (c + q) * Scale = 2 * s + 2 * m
  BY <1>1, ScaleAssumption
<1>4. /\ 2 * (c + q) * Scale <= 2 * (s + a) + Scale
      /\ 2 * (s + a) < 2 * (c + q) * Scale + Scale
  <2> HIDE DEF s, m
  <2> QED BY <1>2, <1>3, ScaleAssumption
<1>5. s + a \in Nat /\ c + q \in Int
  BY <1>1, <1>3
<1> QED BY <1>4, <1>5, NearestPositive DEF q

LEMMA StrictlyRounded ==
  ASSUME NEW a \in Nat, 2 * (a % Scale) # Scale
  PROVE  2 * RoundToCents(a) * Scale < 2 * a + Scale
<1> DEFINE q == RoundToCents(a)
           k == a \div Scale
           rest == a % Scale
<1>1. q \in Int /\ k \in Int /\ rest \in 0..Scale - 1
  BY ScaleAssumption DEF RoundToCents
<1>2. a = k * Scale + rest
  BY ScaleAssumption
<1>3. 2 * q * Scale <= 2 * a + Scale
  BY RoundedBounds
<1> HIDE DEF q, k, rest
<1>4. SUFFICES ASSUME 2 * q * Scale = 2 * a + Scale PROVE 2 * rest = Scale
  BY <1>1, <1>3, ScaleAssumption DEF q, rest
<1>5. 2 * rest = (2 * (q - k) - 1) * Scale
  BY <1>1, <1>2, <1>4, ScaleAssumption
<1> DEFINE odd == 2 * (q - k) - 1
<1>6. odd \in Int /\ 2 * rest = odd * Scale
  BY <1>1, <1>5
<1>7. odd # 0
  BY <1>1
<1> HIDE DEF odd
<1>8. odd >= 0 /\ odd < 2
  <2>1. 0 <= odd * Scale /\ odd * Scale < 2 * Scale
    BY <1>1, <1>6, ScaleAssumption
  <2>2. ASSUME odd >= 2 PROVE FALSE
    <3>1. odd * Scale >= 2 * Scale
      BY <1>6, <2>2, ScaleAssumption
    <3> QED BY <1>6, <2>1, <3>1, ScaleAssumption
  <2>3. ASSUME odd <= -1 PROVE FALSE
    <3>1. odd * Scale <= (-1) * Scale
      BY <1>6, <2>3, ScaleAssumption
    <3> QED BY <1>6, <2>1, <3>1, ScaleAssumption
  <2> QED BY <1>6, <2>2, <2>3
<1> QED BY <1>6, <1>7, <1>8, ScaleAssumption

LEMMA DebitedExactly ==
  ASSUME NEW c \in Nat, NEW a \in Nat, 2 * (a % Scale) # Scale
  PROVE  RoundToCents(c * Scale - a) = c - RoundToCents(a)
<1> DEFINE q == RoundToCents(a)
           m == q * Scale
           s == c * Scale
<1>1. q \in Int
  BY ScaleAssumption DEF RoundToCents
<1>2. 2 * m < 2 * a + Scale /\ 2 * a < 2 * m + Scale
  BY RoundedBounds, StrictlyRounded, <1>1, ScaleAssumption
<1> HIDE DEF q
<1>3. /\ m \in Int /\ s \in Nat
      /\ 2 * (c - q) * Scale = 2 * s - 2 * m
      /\ 2 * (q - c) * Scale = 2 * m - 2 * s
  BY <1>1, ScaleAssumption
<1>4. CASE s - a >= 0
  <2>1. /\ 2 * (c - q) * Scale <= 2 * (s - a) + Scale
        /\ 2 * (s - a) < 2 * (c - q) * Scale + Scale
        /\ s - a \in Nat /\ c - q \in Int
    <3> HIDE DEF s, m
    <3> QED BY <1>1, <1>2, <1>3, <1>4, ScaleAssumption
  <2> QED BY <2>1, NearestPositive DEF q
<1>5. CASE s - a < 0
  <2>1. /\ 2 * (q - c) * Scale <= 2 * (a - s) + Scale
        /\ 2 * (a - s) < 2 * (q - c) * Scale + Scale
        /\ a - s \in Nat /\ q - c \in Int
    <3> HIDE DEF s, m
    <3> QED BY <1>1, <1>2, <1>3, <1>5, ScaleAssumption
  <2>2. RoundToCents(a - s) = q - c
    BY <2>1, NearestPositive
  <2>3. RoundToCents(s - a) = -RoundToCents(a - s)
    <3>1. Scale - 2 * (s - a) = 2 * (a - s) + Scale /\ a - s >= 0 /\ ~ (s - a >= 0)
      BY <1>3, <1>5, ScaleAssumption
    <3> HIDE DEF s
    <3> QED BY <3>1 DEF RoundToCents
  <2> QED BY <1>1, <2>2, <2>3 DEF q
<1> QED BY <1>3, <1>4, <1>5

-----------------------------------------------------------------------------
(***************************************************************************)
(* Facts about the rows the operations write.                              *)
(***************************************************************************)
LEMMA BodyType ==
  ASSUME TypeOK, NEW r \in Requests
  PROVE  /\ input[r] \in Inputs
         /\ input[r].op \in Operations
         /\ input[r].walletId \in Wallets
         /\ Credited(input[r]) \in Wallets
         /\ input[r].amount \in Nat \ {0}
         /\ input[r].key \in Keys
  BY InputsAssumption DEF TypeOK, IsRequestBody, Credited

LEMMA CreatedRowsType ==
  ASSUME NEW r \in Requests, NEW in \in Inputs, NEW status \in TransactionStatus
  PROVE  CreatedRows(r, in, status) \subseteq TransactionRows
<1>1. /\ in.op \in Operations
      /\ in.walletId \in Wallets
      /\ in.op = "TRANSFER" => in.dest \in Wallets
      /\ in.amount \in Nat
      /\ in.key \in Keys
  BY InputsAssumption DEF IsRequestBody
<1>2. RoundToCents(in.amount) \in Int
  BY <1>1, RoundToCentsType
<1>3. Row(r, in, in.walletId, status, in.key) \in TransactionRows
  BY <1>1, <1>2 DEF Row, TransactionRows
<1>4. ASSUME in.op = "TRANSFER"
      PROVE  Row(r, in, in.dest, status, NoKey) \in TransactionRows
  BY <1>1, <1>2, <1>4 DEF Row, TransactionRows
<1> QED BY <1>3, <1>4 DEF CreatedRows

LEMMA FinalStatusType ==
  ASSUME NEW op \in Operations
  PROVE  FinalStatus(op) \in TransactionStatus
  BY DEF FinalStatus, TransactionStatus

LEMMA PendingRowsType ==
  ASSUME TypeOK, NEW r \in Requests, NEW id \in Keys \cup {NoKey}
  PROVE  PendingRows(r, id) \subseteq IdempotencyRows
<1>1. found[r] \subseteq IdempotencyRows /\ input[r] \in Inputs
  BY DEF TypeOK
<1>2. ASSUME NEW x \in IdempotencyRows
      PROVE  [x EXCEPT !.status = "PENDING"] \in IdempotencyRows
  BY DEF IdempotencyRows, IdempotencyStatus
<1>3. [id |-> id, key |-> input[r].key, tenantId |-> input[r].tenantId,
       status |-> "PENDING"] \in IdempotencyRows
  BY <1>1, BodyType DEF IdempotencyRows, IdempotencyStatus
<1> QED BY <1>1, <1>2, <1>3 DEF PendingRows

LEMMA ProcessedRowsType ==
  ASSUME TypeOK, NEW r \in Requests
  PROVE  ProcessedRows(r) \subseteq IdempotencyRows
<1>1. idem \subseteq IdempotencyRows /\ newIdem[r] \subseteq IdempotencyRows
  BY DEF TypeOK
<1>2. ASSUME NEW x \in IdempotencyRows
      PROVE  [x EXCEPT !.status = "PROCESSED"] \in IdempotencyRows
  BY DEF IdempotencyRows, IdempotencyStatus
<1> QED BY <1>1, <1>2 DEF ProcessedRows

-----------------------------------------------------------------------------
(***************************************************************************)
(* The two ends of a database transaction keep the types.                  *)
(***************************************************************************)
LEMMA RollbackType ==
  ASSUME TypeOK, NEW r \in Requests, NEW why \in Answers, Rollback(r, why)
  PROVE  TypeOK'
  BY DEF TypeOK, Rollback, Unlock, DropUncommitted, Goto, Steps, tables

LEMMA CommitType ==
  ASSUME TypeOK, NEW r \in Requests,
         NEW rows \in SUBSET IdempotencyRows, Commit(r, rows)
  PROVE  TypeOK'
  BY DEF TypeOK, Commit, Unlock, DropUncommitted, Goto, Steps

LEMMA UpdateType ==
  ASSUME TypeOK, NEW r \in Requests, NEW w \in Wallets, NEW amount \in Int,
         NEW next \in Steps, UpdateWalletBalance(r, w, amount, next)
  PROVE  TypeOK'
<1> DEFINE updated == PlusAmount(newest[w], amount)
<1>1. updated \in Int
  BY PlusAmountType DEF TypeOK
<1>2. \/ Rollback(r, "overflow")
      \/ Rollback(r, "insufficient")
      \/ /\ owner' = [owner EXCEPT ![w] = r]
         /\ newest' = [newest EXCEPT ![w] = updated]
         /\ Goto(r, next)
         /\ UNCHANGED <<tables, newIdem, newTxns, input, found, answer>>
  BY DEF UpdateWalletBalance
<1>3. CASE Rollback(r, "overflow")
  BY <1>3, RollbackType DEF Answers
<1>4. CASE Rollback(r, "insufficient")
  BY <1>4, RollbackType DEF Answers
<1>5. CASE /\ owner' = [owner EXCEPT ![w] = r]
           /\ newest' = [newest EXCEPT ![w] = updated]
           /\ Goto(r, next)
           /\ UNCHANGED <<tables, newIdem, newTxns, input, found, answer>>
  <2> HIDE DEF updated
  <2> QED BY <1>1, <1>5 DEF TypeOK, Goto, tables
<1> QED BY <1>2, <1>3, <1>4, <1>5

LEMMA InsertType ==
  ASSUME TypeOK, NEW r \in Requests, Insert(r)
  PROVE  TypeOK'
<1>1. CreatedRows(r, input[r], FinalStatus(input[r].op)) \subseteq TransactionRows
  BY BodyType, FinalStatusType, CreatedRowsType
<1> QED BY <1>1 DEF TypeOK, Insert, Goto, Steps, InTransactionAt, tables, rowVersions

LEMMA TypeStep ==
  ASSUME TypeOK, [Next]_vars
  PROVE  TypeOK'
<1>1. ASSUME NEW r \in Requests, Submit(r) PROVE TypeOK'
  BY <1>1 DEF Submit, Goto, TypeOK, Steps, Answers, tables, rowVersions
<1>2. ASSUME NEW r \in Requests, Begin(r) PROVE TypeOK'
  BY <1>2 DEF Begin, Goto, TypeOK, Steps, InTransactionAt, tables, rowVersions
<1>3. ASSUME NEW r \in Requests, FindKey(r) PROVE TypeOK'
  <2>1. CASE Rollback(r, "conflict")
    BY <2>1, RollbackType DEF Answers
  <2>2. CASE ~ Rollback(r, "conflict")
    BY <1>3, <2>2 DEF FindKey, RowsOfKey, Goto, TypeOK, Steps, InTransactionAt,
                      tables, rowVersions
  <2> QED BY <2>1, <2>2
<1>4. ASSUME NEW r \in Requests, ClaimKey(r) PROVE TypeOK'
  <2>1. CASE Rollback(r, "conflict")
    BY <2>1, RollbackType DEF Answers
  <2>2. CASE ~ Rollback(r, "conflict")
    <3>1. PICK id \in Keys \cup {NoKey} :
            newIdem' = [newIdem EXCEPT ![r] = PendingRows(r, id)]
      BY <1>4, <2>2 DEF ClaimKey
    <3>2. newIdem' \in [Requests -> SUBSET IdempotencyRows]
      BY <3>1, PendingRowsType DEF TypeOK
    <3> QED BY <1>4, <2>2, <3>2 DEF ClaimKey, Goto, TypeOK, Steps, InTransactionAt,
                               tables, rowVersions
  <2> QED BY <2>1, <2>2
<1>5. ASSUME NEW r \in Requests, ReadWallets(r) PROVE TypeOK'
  <2>1. CASE Rollback(r, "refused") \/ Rollback(r, "insufficient")
    BY <2>1, RollbackType DEF Answers
  <2>2. CASE ~ (Rollback(r, "refused") \/ Rollback(r, "insufficient"))
    BY <1>5, <2>2 DEF ReadWallets, Goto, TypeOK, Steps, InTransactionAt,
                      tables, rowVersions
  <2> QED BY <2>1, <2>2
<1>6. ASSUME NEW r \in Requests, Debit(r) PROVE TypeOK'
  <2>1. -input[r].amount \in Int
    BY BodyType
  <2> QED BY <1>6, <2>1, BodyType, UpdateType DEF Debit, Steps, InTransactionAt
<1>7. ASSUME NEW r \in Requests, Credit(r) PROVE TypeOK'
  BY <1>7, BodyType, UpdateType DEF Credit, Steps, InTransactionAt
<1>8. ASSUME NEW r \in Requests, Record(r) PROVE TypeOK'
  <2>1. \/ \E why \in {"keyError", "refused", "providerFailed"} : Rollback(r, why)
        \/ Insert(r)
    BY <1>8 DEF Record
  <2> QED BY <2>1, RollbackType, InsertType DEF Answers
<1>9. ASSUME NEW r \in Requests, Finish(r) PROVE TypeOK'
  BY <1>9, RollbackType, CommitType, ProcessedRowsType DEF Finish, Answers
<1>10. ASSUME NEW r \in Requests, Respond(r) PROVE TypeOK'
  BY <1>10 DEF Respond, Goto, TypeOK, Steps, Answers, tables, rowVersions
<1>11. ASSUME NEW r \in Requests, DeadlockVictim(r) PROVE TypeOK'
  BY <1>11, RollbackType DEF DeadlockVictim, Answers
<1>12. CASE Crash
  BY <1>12 DEF Crash, TypeOK, Steps, Answers, tables
<1>13. CASE Quiet \/ UNCHANGED vars
  BY <1>13 DEF Quiet, vars, TypeOK
<1> QED BY <1>1, <1>2, <1>3, <1>4, <1>5, <1>6, <1>7, <1>8, <1>9, <1>10,
           <1>11, <1>12, <1>13 DEF Next, Step

(***************************************************************************)
(* Every reachable state is well typed.                                    *)
(***************************************************************************)
THEOREM TypeCorrect == Spec => []TypeOK
<1>1. Init => TypeOK
  <2> SUFFICES ASSUME Init PROVE TypeOK
    OBVIOUS
  <2>1. OpeningBalance \in [Wallets -> Int]
    BY OpeningAssumption, MaxBalanceAssumption
  <2> QED BY <2>1 DEF Init, TypeOK, Steps, Answers
<1>2. TypeOK /\ [Next]_vars => TypeOK'
  BY TypeStep
<1> QED BY <1>1, <1>2, PTL DEF Spec
=============================================================================
