----------------------- MODULE TransactionsServiceAnswers -----------------------
(***************************************************************************)
(* What the clients of TransactionsService are told is true: for every set *)
(* of requests, keys and bodies, every 201, every error and every 409, and *)
(* one key moves money once.  And what the tables say is true: every       *)
(* balance is the sum of the rows of its wallet (BooksAlwaysBalance).      *)
(*                                                                         *)
(* The argument is the invariant AInv, which is inductive together with    *)
(* IInv.  A step of a request either goes on inside its transaction,       *)
(* rolls it back, commits it, or answers; the lemmas take these in turn.   *)
(***************************************************************************)
EXTENDS TransactionsServiceLedger, SumTheorems

-----------------------------------------------------------------------------
(***************************************************************************)
(* The five kinds of step.                                                 *)
(***************************************************************************)
Advances(r) ==
  /\ pc[r] \notin {"respond", "done"}
  /\ \E step \in InTransactionAt \cup {"queued"} : Goto(r, step)
  /\ \/ newTxns' = newTxns
     \/ newTxns' = [newTxns EXCEPT ![r] = Rows(r)]
  /\ UNCHANGED <<txns, idem, input, answer>>

Refuses(r) ==
  /\ pc[r] \notin {"respond", "done"}
  /\ \E why \in Answers \ {"none", "created", "lost", "conflict"} :
       answer' = [answer EXCEPT ![r] = why]
  /\ Goto(r, "done")
  /\ \A s \in Requests : newTxns'[s] \subseteq newTxns[s]
  /\ UNCHANGED <<txns, idem, input>>

Conflicts(r) ==
  /\ pc[r] \notin {"respond", "done"}
  /\ answer' = [answer EXCEPT ![r] = "conflict"]
  /\ \E x \in idem : x.key = input[r].key /\ x.status = "PROCESSED"
  /\ Goto(r, "done")
  /\ \A s \in Requests : newTxns'[s] \subseteq newTxns[s]
  /\ UNCHANGED <<txns, idem, input>>

Commits(r) ==
  /\ pc[r] = "finish"
  /\ input[r].key \in VisibleIds(r)
  /\ Commit(r, ProcessedRows(r))

LEMMA RollbackIsRefusal ==
  ASSUME TypeOK, NEW r \in Requests, pc[r] \notin {"respond", "done"},
         NEW why \in Answers \ {"none", "created", "lost"}, Rollback(r, why)
  PROVE  \/ Refuses(r)
         \/ why = "conflict" /\ \A s \in Requests : newTxns'[s] \subseteq newTxns[s]
<1>1. \A s \in Requests : newTxns'[s] \subseteq newTxns[s]
  BY DEF TypeOK, Rollback, DropUncommitted
<1> QED BY <1>1 DEF Refuses, Rollback, tables

LEMMA ConflictHasRow ==
  ASSUME IInv, NEW r \in Requests, pc[r] \in {"findKey", "claimKey"},
         Rollback(r, "conflict"),
         \E x \in idem : x.key = input[r].key
  PROVE  Conflicts(r)
<1>1. \A s \in Requests : newTxns'[s] \subseteq newTxns[s]
  BY DEF IInv, TypeOK, Rollback, DropUncommitted
<1> QED BY <1>1 DEF Conflicts, Rollback, tables, IInv, KeysAreClaimed

LEMMA KindsOfStep ==
  ASSUME IInv, NEW r \in Requests, Submit(r) \/ Step(r)
  PROVE  Advances(r) \/ Refuses(r) \/ Conflicts(r) \/ Commits(r) \/ Respond(r)
<1>1. CASE Submit(r)
  <2>1. CASE input[r].op = "TRANSFER" /\ input[r].walletId = input[r].dest
    BY <1>1, <2>1 DEF Submit, Refuses, Answers, tables
  <2>2. CASE ~ (input[r].op = "TRANSFER" /\ input[r].walletId = input[r].dest)
    BY <1>1, <2>2 DEF Submit, Advances, tables
  <2> QED BY <2>1, <2>2
<1>2. CASE Begin(r)
  BY <1>2 DEF Begin, Advances, InTransactionAt, tables
<1>3. CASE FindKey(r)
  <2>1. CASE \E x \in RowsOfKey(r) : x.status \in {"PROCESSED", "PENDING"}
    BY <1>3, <2>1, ConflictHasRow DEF FindKey, RowsOfKey
  <2>2. CASE ~ \E x \in RowsOfKey(r) : x.status \in {"PROCESSED", "PENDING"}
    BY <1>3, <2>2 DEF FindKey, Advances, InTransactionAt, tables
  <2> QED BY <2>1, <2>2
<1>4. CASE ClaimKey(r)
  <2>1. CASE found[r] = {} /\ \E x \in idem : x.key = input[r].key
    BY <1>4, <2>1, ConflictHasRow DEF ClaimKey
  <2>2. CASE ~ (found[r] = {} /\ \E x \in idem : x.key = input[r].key)
    BY <1>4, <2>2 DEF ClaimKey, Advances, InTransactionAt, tables
  <2> QED BY <2>1, <2>2
<1>5. CASE ReadWallets(r)
  <2>1. CASE \E why \in {"refused", "insufficient"} : Rollback(r, why)
    BY <1>5, <2>1, RollbackIsRefusal DEF ReadWallets, Answers, IInv
  <2>2. CASE ~ \E why \in {"refused", "insufficient"} : Rollback(r, why)
    BY <1>5, <2>2 DEF ReadWallets, Advances, InTransactionAt, tables
  <2> QED BY <2>1, <2>2
<1>6. ASSUME NEW w, NEW amount, NEW next \in InTransactionAt,
             UpdateWalletBalance(r, w, amount, next),
             pc[r] \in {"debit", "credit"}
      PROVE  Advances(r) \/ Refuses(r)
  <2>1. CASE \E why \in {"overflow", "insufficient"} : Rollback(r, why)
    BY <1>6, <2>1, RollbackIsRefusal DEF Answers, IInv
  <2>2. CASE ~ \E why \in {"overflow", "insufficient"} : Rollback(r, why)
    BY <1>6, <2>2 DEF UpdateWalletBalance, Advances, tables
  <2> QED BY <2>1, <2>2
<1>7. CASE Debit(r) \/ Credit(r)
  BY <1>6, <1>7 DEF Debit, Credit, InTransactionAt
<1>8. CASE Record(r)
  <2>1. CASE \E why \in {"keyError", "refused", "providerFailed"} : Rollback(r, why)
    BY <1>8, <2>1, RollbackIsRefusal DEF Record, Answers, IInv
  <2>2. CASE Insert(r)
    BY <1>8, <2>2 DEF Record, Insert, Rows, Advances, InTransactionAt, tables
  <2> QED BY <1>8, <2>1, <2>2 DEF Record
<1>9. CASE Finish(r)
  BY <1>9, RollbackIsRefusal DEF Finish, Commits, Answers, IInv
<1>10. CASE DeadlockVictim(r)
  <2>1. pc[r] \in {"claimKey", "debit", "credit"}
    BY <1>10 DEF DeadlockVictim, InCycle, WaitsFor
  <2> QED BY <1>10, <2>1, RollbackIsRefusal DEF DeadlockVictim, Answers, IInv
<1> QED BY <1>1, <1>2, <1>3, <1>4, <1>5, <1>7, <1>8, <1>9, <1>10 DEF Step

-----------------------------------------------------------------------------
(***************************************************************************)
(* The rows a request will commit are its own, and one of them has its     *)
(* key.                                                                    *)
(***************************************************************************)
LEMMA RowsOfRequest ==
  ASSUME TypeOK, NEW r \in Requests
  PROVE  /\ \A t \in Rows(r) : t.req = r
         /\ \A t \in Rows(r) : t.idempotencyKeyId \in {input[r].key, NoKey}
         /\ \E t \in Rows(r) : t.idempotencyKeyId = input[r].key
         /\ \A t, u \in Rows(r) :
              t.idempotencyKeyId = input[r].key /\ u.idempotencyKeyId = input[r].key =>
                t = u
<1> DEFINE in == input[r]
           status == FinalStatus(in.op)
           source == Row(r, in, in.walletId, status, in.key)
           dest == Row(r, in, in.dest, status, NoKey)
<1>1. /\ source.req = r /\ source.idempotencyKeyId = in.key
      /\ dest.req = r /\ dest.idempotencyKeyId = NoKey
  BY DEF Row
<1>2. in.key # NoKey
  BY BodyType, NoKeyAssumption
<1>3. source \in Rows(r) /\ \A t \in Rows(r) : t = source \/ t = dest
  BY DEF Rows, CreatedRows
<1> HIDE DEF source, dest
<1> QED BY <1>1, <1>2, <1>3

LEMMA RowsUnchanged ==
  ASSUME input' = input, NEW r \in Requests
  PROVE  Rows(r)' = Rows(r)
  BY DEF Rows

(***************************************************************************)
(* A step that commits nothing keeps AInv.                                 *)
(***************************************************************************)
LEMMA NoRowStep ==
  ASSUME IInv, AInv, NEW r \in Requests, NEW step, Goto(r, step),
         UNCHANGED <<txns, idem, input>>,
         \A s \in Requests \ {r} : answer'[s] = answer[s],
         \A s \in Requests : \A t \in newTxns'[s] : t.req = s,
         step # "done" => answer'[r] = "none",
         step = "respond" => Rows(r) \subseteq txns,
         step \notin {"respond", "done"} => \A t \in txns : t.req # r,
         answer'[r] = "created" => Rows(r) \subseteq txns,
         answer'[r] \notin {"none", "created", "lost"} => \A t \in txns : t.req # r,
         answer'[r] = "conflict" =>
           \E x \in idem : x.key = input[r].key /\ x.status = "PROCESSED"
  PROVE  AInv'
<1>1. pc'[r] = step /\ \A s \in Requests \ {r} : pc'[s] = pc[s]
  BY OneStepMoves DEF IInv
<1>2. \A s \in Requests : Rows(s)' = Rows(s)
  BY RowsUnchanged
<1>3. RowsFollowSteps'
  <2>1. ASSUME NEW s \in Requests
        PROVE  /\ pc'[s] # "done" => answer'[s] = "none"
               /\ \A t \in newTxns'[s] : t.req = s
               /\ pc'[s] = "respond" => Rows(s) \subseteq txns
               /\ pc'[s] \notin {"respond", "done"} => \A t \in txns : t.req # s
    <3>1. CASE s = r
      BY <1>1, <3>1
    <3>2. CASE s # r
      BY <1>1, <3>2 DEF AInv, RowsFollowSteps
    <3> QED BY <3>1, <3>2
  <2> QED BY <1>2, <2>1 DEF RowsFollowSteps
<1>4. RowsFollowKeys'
  BY DEF AInv, RowsFollowKeys
<1>5. AnswersAreTrue'
  <2>1. \A s \in Requests :
          /\ answer'[s] = "created" => Rows(s) \subseteq txns
          /\ answer'[s] \notin {"none", "created", "lost"} =>
               \A t \in txns : t.req # s
    BY DEF AInv, AnswersAreTrue, Rows
  <2> QED BY <1>2, <2>1 DEF AnswersAreTrue, Rows
<1>6. ConflictMeansProcessed'
  BY DEF AInv, ConflictMeansProcessed
<1> QED BY <1>3, <1>4, <1>5, <1>6 DEF AInv

(***************************************************************************)
(* A commit adds the rows of one request and uses one key, new for both    *)
(* tables.                                                                 *)
(***************************************************************************)
LEMMA CommitKeepsAInv ==
  ASSUME IInv, AInv, NEW r \in Requests, Commits(r)
  PROVE  AInv'
<1> DEFINE k == input[r].key
<1>1. /\ txns' = txns \cup Rows(r)
      /\ input' = input /\ answer' = answer /\ Goto(r, "respond")
      /\ newTxns' = [newTxns EXCEPT ![r] = {}]
  BY DEF Commits, Commit, DropUncommitted, IInv, RequestsAreChecked, Rows
<1>2. /\ \A x \in idem' : x.status = "PROCESSED"
      /\ {x.key : x \in idem'} = {x.key : x \in idem} \cup {k}
  BY CommittedKeyRows DEF Commits
<1>3. pc'[r] = "respond" /\ \A s \in Requests \ {r} : pc'[s] = pc[s]
  BY <1>1, OneStepMoves DEF IInv
<1>4. \A s \in Requests : Rows(s)' = Rows(s)
  BY <1>1, RowsUnchanged
<1>5. /\ \A t \in Rows(r) : t.req = r /\ t.idempotencyKeyId \in {k, NoKey}
      /\ \E t \in Rows(r) : t.idempotencyKeyId = k
      /\ \A t, u \in Rows(r) :
           t.idempotencyKeyId = k /\ u.idempotencyKeyId = k => t = u
  BY RowsOfRequest DEF IInv
<1>6. /\ \A x \in idem : x.key # k
      /\ k \in Keys /\ k # NoKey
  BY BodyType, NoKeyAssumption DEF Commits, IInv, KeysAreClaimed, Claimed
<1>7. \A t \in txns : t.idempotencyKeyId # k
  BY <1>6 DEF AInv, RowsFollowKeys
<1>8. \A key : (\E x \in idem' : x.key = key)
                 <=> (\E x \in idem : x.key = key) \/ key = k
  <2>1. \A key : /\ key \in {x.key : x \in idem'} <=> \E x \in idem' : x.key = key
                 /\ key \in {x.key : x \in idem} <=> \E x \in idem : x.key = key
    OBVIOUS
  <2> QED BY <1>2, <2>1
<1>9. RowsFollowSteps'
  <2>1. ASSUME NEW s \in Requests
        PROVE  /\ pc'[s] # "done" => answer'[s] = "none"
               /\ \A t \in newTxns'[s] : t.req = s
               /\ pc'[s] = "respond" => Rows(s) \subseteq txns'
               /\ pc'[s] \notin {"respond", "done"} => \A t \in txns' : t.req # s
    <3>1. CASE s = r
      BY <1>1, <1>3, <3>1 DEF AInv, RowsFollowSteps, Commits, IInv, TypeOK
    <3>2. CASE s # r
      <4>1. newTxns'[s] = newTxns[s] /\ pc'[s] = pc[s]
        BY <1>1, <1>3, <3>2 DEF IInv, TypeOK
      <4> QED BY <1>1, <1>5, <3>2, <4>1 DEF AInv, RowsFollowSteps
    <3> QED BY <3>1, <3>2
  <2> QED BY <1>4, <2>1 DEF RowsFollowSteps
<1>10. RowsFollowKeys'
  <2>1. \A key \in Keys :
          (\E t \in txns' : t.idempotencyKeyId = key)
            <=> (\E x \in idem' : x.key = key)
    BY <1>1, <1>5, <1>8, NoKeyAssumption DEF AInv, RowsFollowKeys
  <2>2. \A t, u \in txns' :
          t.idempotencyKeyId = u.idempotencyKeyId /\ t.idempotencyKeyId # NoKey =>
            t = u
    BY <1>1, <1>5, <1>7 DEF AInv, RowsFollowKeys
  <2>3. \A x, y \in idem' : x.key = y.key => x = y
    <3>1. PICK z : z.key = k /\ idem' = idem \cup {z}
      BY CommittedKeyRows DEF Commits
    <3> QED BY <1>6, <3>1 DEF AInv, RowsFollowKeys
  <2> QED BY <2>1, <2>2, <2>3 DEF RowsFollowKeys
<1>11. AnswersAreTrue'
  <2>1. \A s \in Requests :
          /\ answer[s] = "created" => Rows(s) \subseteq txns'
          /\ answer[s] \notin {"none", "created", "lost"} =>
               s # r /\ \A t \in txns : t.req # s
    BY <1>1 DEF AInv, AnswersAreTrue, RowsFollowSteps, Rows, Commits
  <2> QED BY <1>1, <1>4, <1>5, <2>1 DEF AnswersAreTrue, Rows
<1>12. ConflictMeansProcessed'
  <2>1. ASSUME NEW s \in Requests, answer[s] = "conflict"
        PROVE  \E x \in idem' : x.key = input[s].key /\ x.status = "PROCESSED"
    BY <1>2, <1>8, <2>1 DEF AInv, ConflictMeansProcessed
  <2> QED BY <1>1, <2>1 DEF ConflictMeansProcessed
<1> QED BY <1>9, <1>10, <1>11, <1>12 DEF AInv

LEMMA AInvStep ==
  ASSUME IInv, AInv, [Next]_vars
  PROVE  AInv'
<1>1. ASSUME NEW r \in Requests, Submit(r) \/ Step(r) PROVE AInv'
  <2>1. CASE Advances(r)
    <3>1. PICK step \in InTransactionAt \cup {"queued"} : Goto(r, step)
      BY <2>1 DEF Advances
    <3>2. \A s \in Requests : \A t \in newTxns'[s] : t.req = s
      BY <2>1, RowsOfRequest DEF Advances, IInv, TypeOK, AInv, RowsFollowSteps
    <3> QED BY <2>1, <3>1, <3>2, NoRowStep
            DEF Advances, InTransactionAt, AInv, RowsFollowSteps
  <2>2. CASE Refuses(r) \/ Conflicts(r)
    <3>1. \A s \in Requests : \A t \in newTxns'[s] : t.req = s
      BY <2>2 DEF Refuses, Conflicts, AInv, RowsFollowSteps
    <3> QED BY <2>2, <3>1, NoRowStep
            DEF Refuses, Conflicts, IInv, TypeOK, AInv, RowsFollowSteps
  <2>3. CASE Commits(r)
    BY <2>3, CommitKeepsAInv
  <2>4. CASE Respond(r)
    BY <2>4, NoRowStep DEF Respond, IInv, TypeOK, AInv, RowsFollowSteps, tables
  <2> QED BY <1>1, <2>1, <2>2, <2>3, <2>4, KindsOfStep
<1>2. CASE Crash
  <2>1. \A s \in Requests : Rows(s)' = Rows(s)
    BY <1>2, RowsUnchanged DEF Crash
  <2>2. /\ txns' = txns /\ idem' = idem /\ input' = input
        /\ \A s \in Requests :
             /\ newTxns'[s] = {}
             /\ answer'[s] = answer[s] \/ answer'[s] = "lost"
             /\ pc'[s] = "done" \/ (pc'[s] = pc[s] /\ answer'[s] = answer[s])
    BY <1>2 DEF Crash, tables
  <2>3. RowsFollowSteps'
    BY <2>1, <2>2 DEF AInv, RowsFollowSteps
  <2>4. RowsFollowKeys' /\ ConflictMeansProcessed'
    BY <2>2 DEF AInv, RowsFollowKeys, ConflictMeansProcessed
  <2>5. AnswersAreTrue'
    BY <2>1, <2>2 DEF AInv, AnswersAreTrue, Rows
  <2> QED BY <2>3, <2>4, <2>5 DEF AInv
<1>3. CASE Quiet \/ UNCHANGED vars
  <2>1. UNCHANGED vars
    BY <1>3 DEF Quiet
  <2> QED BY <2>1 DEF vars, AInv, RowsFollowSteps, RowsFollowKeys, AnswersAreTrue,
                      ConflictMeansProcessed, Rows
<1> QED BY <1>1, <1>2, <1>3 DEF Next

(***************************************************************************)
(* The two invariants hold in every reachable state.                       *)
(***************************************************************************)
THEOREM AnswersInvariance == Spec => [](IInv /\ AInv)
<1>1. Init => AInv
  BY DEF Init, AInv, RowsFollowSteps, RowsFollowKeys, AnswersAreTrue,
         ConflictMeansProcessed
<1>2. IInv /\ AInv /\ [Next]_vars => AInv'
  BY AInvStep
<1> QED BY <1>1, <1>2, Invariance, PTL DEF Spec

(***************************************************************************)
(* What a client is told is what happened.                                 *)
(***************************************************************************)
THEOREM AnswersTrue == Spec => []AnswersAreTrue
<1>1. AInv => AnswersAreTrue
  BY DEF AInv
<1> QED BY <1>1, AnswersInvariance, PTL

(***************************************************************************)
(* A 409 is given only for a key whose movement is committed, never on     *)
(* account of an attempt that is rolled back later.                        *)
(***************************************************************************)
THEOREM ConflictsFinal == Spec => []ConflictMeansProcessed
<1>1. AInv => ConflictMeansProcessed
  BY DEF AInv
<1> QED BY <1>1, AnswersInvariance, PTL

(***************************************************************************)
(* One key moves money once if it is PROCESSED, and never otherwise,       *)
(* however often and however concurrently it is sent.                      *)
(***************************************************************************)
LEMMA SameCardinality ==
  ASSUME NEW S, NEW T,
         \A a, b \in S : a = b,
         \A a, b \in T : a = b,
         (\E a : a \in S) <=> (\E b : b \in T)
  PROVE  Cardinality(S) = Cardinality(T)
<1>1. CASE S = {}
  BY <1>1
<1>2. CASE S # {}
  <2>1. PICK a, b : S = {a} /\ T = {b}
    BY <1>2
  <2> QED BY <2>1, FS_Singleton
<1> QED BY <1>1, <1>2

THEOREM KeysMoveOnce == Spec => []OneMovementPerKey
<1>1. ASSUME IInv, AInv PROVE OneMovementPerKey
  <2> SUFFICES ASSUME NEW k \in Keys
               PROVE  Cardinality({t \in txns : t.idempotencyKeyId = k})
                        = Cardinality({x \in idem : x.key = k /\ x.status = "PROCESSED"})
    BY DEF OneMovementPerKey
  <2> DEFINE S == {t \in txns : t.idempotencyKeyId = k}
             T == {x \in idem : x.key = k /\ x.status = "PROCESSED"}
  <2>1. \A t, u \in S : t = u
    BY <1>1, NoKeyAssumption DEF AInv, RowsFollowKeys
  <2>2. \A x, y \in T : x = y
    BY <1>1 DEF AInv, RowsFollowKeys
  <2>3. (\E t : t \in S) <=> (\E x : x \in T)
    BY <1>1 DEF AInv, RowsFollowKeys, IInv, KeysAreClaimed
  <2> HIDE DEF S, T
  <2>4. Cardinality(S) = Cardinality(T)
    BY <2>1, <2>2, <2>3, SameCardinality
  <2> QED BY <2>4 DEF S, T
<1> QED BY <1>1, AnswersInvariance, PTL

-----------------------------------------------------------------------------
(***************************************************************************)
(* Why a request is refused for lack of money: the check before the debit  *)
(* reads the committed balance, and so in effect does the one after it,    *)
(* for the row was free when it was locked.                                *)
(***************************************************************************)
LEMMA DebitRefusalIsJustified ==
  ASSUME IInv, NEW r \in Requests, pc[r] = "debit", WaitsFor(r) = {},
         PlusAmount(newest[input[r].walletId], -input[r].amount) < 0
  PROVE  balance[input[r].walletId] * Scale < input[r].amount
<1> DEFINE w == input[r].walletId
           a == input[r].amount
           t == balance[w] * Scale + (-a)
<1>1. w \in Wallets /\ a \in Nat
  BY BodyType DEF IInv
<1>2. newest[w] = balance[w] /\ balance[w] \in Nat
  BY <1>1, FreeRow DEF IInv, BalancesInRange
<1>3. t \in Int
  BY <1>1, <1>2, ScaleAssumption
<1>4. RoundToCents(t) < 0
  BY <1>2 DEF PlusAmount
<1>5. ~ (t \in Nat)
  <2> HIDE DEF t
  <2>1. ASSUME t \in Nat PROVE FALSE
    <3>1. RoundToCents(t) >= 0 /\ RoundToCents(t) \in Int
      BY <1>3, <2>1, RoundToCentsNonNegative, RoundToCentsType
    <3> QED BY <1>4, <3>1
  <2> QED BY <2>1
<1>6. balance[w] * Scale \in Int
  BY <1>2, ScaleAssumption
<1> QED BY <1>1, <1>3, <1>5, <1>6

LEMMA StepRefusalIsJustified ==
  ASSUME IInv, [Next]_vars, NEW r \in Requests,
         answer[r] = "none", answer'[r] = "insufficient"
  PROVE  balance[input[r].walletId] * Scale < input[r].amount
<1>1. \A s \in Requests : \A why : Rollback(s, why) => s = r /\ why = "insufficient"
  BY DEF Rollback, IInv, TypeOK
<1>2. ASSUME NEW s \in Requests, Submit(s) \/ Step(s)
      PROVE  balance[input[r].walletId] * Scale < input[r].amount
  <2>1. Submit(s) => FALSE
    BY DEF Submit, IInv, TypeOK
  <2>2. Begin(s) \/ Insert(s) \/ Respond(s) => FALSE
    BY DEF Begin, Insert, Respond, IInv, TypeOK
  <2>3. FindKey(s) \/ ClaimKey(s) \/ Record(s) \/ DeadlockVictim(s) => FALSE
    BY <1>1, <2>2 DEF FindKey, ClaimKey, Record, DeadlockVictim
  <2>4. Finish(s) => FALSE
    BY <1>1 DEF Finish, Commit
  <2>5. CASE ReadWallets(s)
    BY <1>1, <2>5 DEF ReadWallets, ReadBalance
  <2>6. CASE Debit(s)
    <3>1. /\ s = r /\ pc[r] = "debit" /\ WaitsFor(r) = {}
          /\ PlusAmount(newest[input[r].walletId], -input[r].amount) < 0
      BY <1>1, <2>6 DEF Debit, UpdateWalletBalance
    <3> QED BY <3>1, DebitRefusalIsJustified
  <2>7. Credit(s) => FALSE
    <3>1. ~ (input[s].amount < 0)
      BY BodyType DEF IInv
    <3> QED BY <1>1, <3>1 DEF Credit, UpdateWalletBalance
  <2> QED BY <1>2, <2>1, <2>2, <2>3, <2>4, <2>5, <2>6, <2>7 DEF Step
<1>3. Crash => FALSE
  BY DEF Crash
<1>4. Quiet \/ UNCHANGED vars => FALSE
  BY DEF Quiet, vars
<1> QED BY <1>2, <1>3, <1>4 DEF Next

(***************************************************************************)
(* No request is refused for lack of money on account of money another     *)
(* one has moved and may yet give back.                                    *)
(***************************************************************************)
THEOREM RefusalsJustified == Spec => RefusalsAreJustified
<1>1. IInv /\ [Next]_vars =>
        [\A r \in Requests :
           answer[r] = "none" /\ answer'[r] = "insufficient" =>
             balance[input[r].walletId] * Scale < input[r].amount]_vars
  BY StepRefusalIsJustified
<1> QED BY <1>1, Invariance, PTL DEF Spec, RefusalsAreJustified
-----------------------------------------------------------------------------
(***************************************************************************)
(* The books.  A post moves in each of its wallets what the one row it     *)
(* inserts there says.                                                     *)
(***************************************************************************)
LEMMA SignedAmountType ==
  ASSUME NEW t \in TransactionRows
  PROVE  SignedAmount(t) \in Int
  BY DEF SignedAmount, TransactionRows

LEMMA RowSaysMovement ==
  ASSUME NoHalfCents, IInv, NEW r \in Requests, NEW w \in Touched(input[r]),
         input[r].op = "TRANSFER" => input[r].walletId # input[r].dest
  PROVE  \E u \in Rows(r) :
           /\ \A t \in Rows(r) : t.walletId = w <=> t = u
           /\ PlusAmount(balance[w], Movement(input[r], w))
                = balance[w] + SignedAmount(u)
<1> DEFINE in == input[r]
           status == FinalStatus(in.op)
           source == Row(r, in, in.walletId, status, in.key)
           dest == Row(r, in, in.dest, status, NoKey)
<1>1. /\ in.op \in Operations /\ in.amount \in Nat /\ in.key # NoKey
      /\ in.op # "DEPOSIT" => 2 * (in.amount % Scale) # Scale
      /\ w \in Wallets /\ balance[w] \in Nat
  BY BodyType, InputsAssumption, NoKeyAssumption
  DEF IInv, TypeOK, BalancesInRange, NoHalfCents, Touched, IsRequestBody
<1>2. /\ source.walletId = in.walletId /\ dest.walletId = in.dest
      /\ SignedAmount(source) = IF in.op = "DEPOSIT" THEN RoundToCents(in.amount)
                                                    ELSE -RoundToCents(in.amount)
      /\ in.op = "TRANSFER" => SignedAmount(dest) = RoundToCents(in.amount)
  BY <1>1 DEF Row, SignedAmount, Operations
<1>3. Rows(r) = IF in.op = "TRANSFER" THEN {source, dest} ELSE {source}
  BY DEF Rows, CreatedRows
<1>4. RoundToCents(in.amount) \in Int
  BY <1>1, RoundToCentsType
<1>5. PlusAmount(balance[w], in.amount) = balance[w] + RoundToCents(in.amount)
  BY <1>1, CreditedExactly DEF PlusAmount
<1>6. in.op # "DEPOSIT" =>
        PlusAmount(balance[w], -in.amount) = balance[w] - RoundToCents(in.amount)
  <2>1. balance[w] * Scale + (-in.amount) = balance[w] * Scale - in.amount
    BY <1>1, ScaleAssumption
  <2> QED BY <1>1, <2>1, DebitedExactly DEF PlusAmount
<1> HIDE DEF source, dest
<1>7. CASE w = in.walletId
  BY <1>1, <1>2, <1>3, <1>4, <1>5, <1>6, <1>7 DEF Movement
<1>8. CASE w # in.walletId
  <2>1. in.op = "TRANSFER" /\ w = in.dest
    BY <1>8 DEF Touched
  <2> QED BY <1>2, <1>3, <1>5, <1>8, <2>1 DEF Movement
<1> QED BY <1>7, <1>8

LEMMA PostKeepsBooks ==
  ASSUME NoHalfCents, IInv, AInv, BooksBalance, IsFiniteSet(txns),
         NEW r \in Requests, pc[r] = "finish", L!Post(r, input[r]),
         TypeOK'
  PROVE  BooksBalance' /\ IsFiniteSet(txns')
<1> DEFINE in == input[r]
           f == [t \in txns |-> SignedAmount(t)]
           e == [t \in txns' |-> SignedAmount(t)]
<1>1. /\ txns' = txns \cup Rows(r)
      /\ \A w \in Wallets :
           balance'[w] = IF w \in Touched(in)
                           THEN PlusAmount(balance[w], Movement(in, w))
                           ELSE balance[w]
      /\ in.op = "TRANSFER" => in.walletId # in.dest
  BY SameOperators DEF L!Post, Rows
<1>2. \A t \in txns : t \notin Rows(r)
  BY RowsOfRequest DEF IInv, AInv, RowsFollowSteps
<1>3. IsFiniteSet(txns')
  <2>1. PICK a, b : Rows(r) = {a} \cup {b}
    BY DEF Rows, CreatedRows
  <2>2. txns' = (txns \cup {a}) \cup {b}
    BY <1>1, <2>1
  <2>3. IsFiniteSet(txns \cup {a})
    BY FS_AddElement
  <2> QED BY <2>2, <2>3, FS_AddElement
<1>4. ASSUME NEW w \in Wallets
      PROVE  balance'[w] = OpeningBalance[w] + SumFunctionOnSet(e, RowsOf(w)')
  <2>1. /\ IsFiniteSet(RowsOf(w)) /\ RowsOf(w) \subseteq txns
        /\ \A t \in RowsOf(w) : f[t] \in Int /\ f[t] = e[t]
    BY <1>1, SignedAmountType, FS_Subset DEF RowsOf, IInv, TypeOK
  <2>2. /\ balance[w] = OpeningBalance[w] + SumFunctionOnSet(f, RowsOf(w))
        /\ SumFunctionOnSet(f, RowsOf(w)) = SumFunctionOnSet(e, RowsOf(w))
    BY <2>1, SumOfSame DEF BooksBalance
  <2>3. CASE w \notin Touched(in)
    <3>1. \A t \in Rows(r) : t.walletId # w
      BY <2>3 DEF Rows, CreatedRows, Row, Touched
    <3>2. RowsOf(w)' = RowsOf(w)
      BY <1>1, <3>1 DEF RowsOf
    <3> QED BY <1>1, <2>2, <2>3, <3>2
  <2>4. CASE w \in Touched(in)
    <3>1. PICK u \in Rows(r) :
            /\ \A t \in Rows(r) : t.walletId = w <=> t = u
            /\ PlusAmount(balance[w], Movement(in, w)) = balance[w] + SignedAmount(u)
      BY <1>1, <2>4, RowSaysMovement
    <3>2. RowsOf(w)' = RowsOf(w) \cup {u} /\ u \notin RowsOf(w)
      BY <1>1, <1>2, <3>1 DEF RowsOf
    <3>3. e[u] = SignedAmount(u) /\ SignedAmount(u) \in Int
      BY <1>1, SignedAmountType DEF TypeOK
    <3> HIDE DEF e, f
    <3>4. SumFunctionOnSet(e, RowsOf(w) \cup {u})
            = SumFunctionOnSet(e, RowsOf(w)) + e[u]
      BY <2>1, <3>2, <3>3, SumWith
    <3>5. /\ SumFunctionOnSet(e, RowsOf(w)) \in Int
          /\ OpeningBalance[w] \in Int
      BY <2>1, SumIsInteger, OpeningAssumption
    <3> QED BY <1>1, <2>2, <2>4, <3>1, <3>2, <3>3, <3>4, <3>5
  <2> QED BY <2>3, <2>4
<1> QED BY <1>3, <1>4 DEF BooksBalance

LEMMA BooksStep ==
  ASSUME NoHalfCents, IInv, AInv, BooksBalance, IsFiniteSet(txns), [Next]_vars
  PROVE  BooksBalance' /\ IsFiniteSet(txns')
<1>1. ASSUME UNCHANGED <<balance, txns>>
      PROVE  BooksBalance' /\ IsFiniteSet(txns')
  BY <1>1 DEF BooksBalance, RowsOf
<1>2. CASE Crash \/ Quiet \/ UNCHANGED vars
  BY <1>1, <1>2 DEF Crash, Quiet, vars, tables
<1>3. ASSUME NEW r \in Requests, Submit(r) \/ Step(r)
      PROVE  BooksBalance' /\ IsFiniteSet(txns')
  <2>1. TypeOK'
    BY IInvStep DEF IInv
  <2> QED BY <1>1, <1>3, <2>1, StillOrPosts, PostKeepsBooks
<1> QED BY <1>2, <1>3 DEF Next

(***************************************************************************)
(* Every balance is explained by the committed rows, in every reachable    *)
(* state, unless a debit ends in half a cent: no interleaving, rollback,   *)
(* deadlock or crash creates or destroys money (updateWalletBalance and    *)
(* createTransaction in one database transaction).                         *)
(***************************************************************************)
THEOREM BooksAlwaysBalance ==
  ASSUME NoHalfCents
  PROVE  Spec => []BooksBalance
<1>1. Init => BooksBalance /\ IsFiniteSet(txns)
  <2> SUFFICES ASSUME Init PROVE BooksBalance /\ IsFiniteSet(txns)
    OBVIOUS
  <2> DEFINE f == [t \in txns |-> SignedAmount(t)]
  <2>1. ASSUME NEW w \in Wallets
        PROVE  balance[w] = OpeningBalance[w] + SumFunctionOnSet(f, RowsOf(w))
    <3>1. /\ RowsOf(w) = {} /\ balance[w] = OpeningBalance[w]
          /\ OpeningBalance[w] \in Int
      BY OpeningAssumption DEF Init, RowsOf
    <3> HIDE DEF f
    <3>2. SumFunctionOnSet(f, {}) = 0
      BY SumOfNothing
    <3> QED BY <3>1, <3>2
  <2>2. BooksBalance
    BY <2>1 DEF BooksBalance
  <2> QED BY <2>2, FS_EmptySet DEF Init
<1>2. IInv /\ AInv /\ BooksBalance /\ IsFiniteSet(txns) /\ [Next]_vars =>
        BooksBalance' /\ IsFiniteSet(txns)'
  BY BooksStep
<1> QED BY <1>1, <1>2, AnswersInvariance, PTL DEF Spec
=============================================================================
