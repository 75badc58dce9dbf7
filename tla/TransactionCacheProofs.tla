------------------------- MODULE TransactionCacheProofs -------------------------
(***************************************************************************)
(* What the cache guarantees for every set of rows, keys, writers and      *)
(* readers, however their steps interleave, throw or are retried.  The     *)
(* argument is the inductive invariant IInv of TransactionCache.           *)
(***************************************************************************)
EXTENDS TransactionCache, SequenceTheorems, TLAPS

-----------------------------------------------------------------------------
(***************************************************************************)
(* The keys, and the rows each one stands for.                             *)
(***************************************************************************)
LEMMA KeysDiffer ==
  /\ \A t \in Transactions : RowKey(t) # TenantKey /\ RowKey(t)[2] = t
  /\ \A u : UserKey(u) # TenantKey /\ UserKey(u) \notin RowKeys /\ UserKey(u)[2] = u
  /\ TenantKey \notin RowKeys
  BY DEF TenantKey, UserKey, RowKey, RowKeys

LEMMA CoversOfKeys ==
  /\ Covers(TenantKey) = Transactions
  /\ \A t \in Transactions : Covers(RowKey(t)) = {t}
  /\ \A u \in Users : Covers(UserKey(u)) = RowsOfUser[u]
<1>1. Covers(TenantKey) = Transactions
  BY KeysDiffer DEF Covers
<1>2. ASSUME NEW t \in Transactions PROVE Covers(RowKey(t)) = {t}
  <2>1. RowKey(t) # TenantKey /\ RowKey(t) \in RowKeys /\ RowKey(t)[2] = t
    BY KeysDiffer DEF RowKeys
  <2> QED BY <2>1, Zenon DEF Covers
<1>3. ASSUME NEW u \in Users PROVE Covers(UserKey(u)) = RowsOfUser[u]
  <2>1. /\ UserKey(u) # TenantKey /\ UserKey(u) \notin RowKeys
        /\ UserKey(u)[2] = u
    BY KeysDiffer
  <2> QED BY <2>1, Zenon DEF Covers
<1> QED BY <1>1, <1>2, <1>3

LEMMA CoversRows ==
  ASSUME NEW k \in ReadableKeys
  PROVE  Covers(k) \subseteq Transactions
  BY CoversOfKeys, RowsOfUserAssumption DEF ReadableKeys, RowKeys

LEMMA DeletedKeys ==
  ASSUME NEW t \in Transactions
  PROVE  /\ DeletedKey("delTenant", t) = TenantKey
         /\ DeletedKey("delUser", t) = UserKey(WalletOf[t])
         /\ DeletedKey("delRow", t) = RowKey(t)
<1>1. "delTenant" # "delUser" /\ "delTenant" # "delRow" /\ "delUser" # "delRow"
  OBVIOUS
<1> QED BY <1>1, Zenon DEF DeletedKey

LEMMA AfterSteps ==
  /\ DOMAIN After = {"delTenant", "delUser", "delRow"}
  /\ After["delTenant"] = "delUser" /\ After["delUser"] = "delRow"
  /\ After["delRow"] = "next"
  BY DEF After

LEMMA RowOfWriter ==
  ASSUME TypeOK, NEW w \in Writers
  PROVE  /\ Row(w) \in Transactions /\ Op(w) \in {"create", "update"}
         /\ Len(WritesOf[w]) \in Nat
<1>1. /\ WritesOf[w] \in Seq([op : {"create", "update"}, row : Transactions])
      /\ writes[w] \in 1..Len(WritesOf[w])
  BY WritesOfAssumption DEF TypeOK, WritersTypeOK
<1>2. WritesOf[w][writes[w]] \in [op : {"create", "update"}, row : Transactions]
  BY <1>1, ElementOfSeq
<1> QED BY <1>1, <1>2 DEF Row, Op

(***************************************************************************)
(* A view of the committed rows is a view, and a snapshot from then on.    *)
(***************************************************************************)
LEMMA ViewsAreViews ==
  ASSUME NEW k \in ReadableKeys, NEW versions \in [Transactions -> Nat]
  PROVE  IsView(k, View(k, versions))
  BY CoversRows DEF IsView, View

LEMMA ReaderStates ==
  /\ Idle.at = "idle"
  /\ \A k : Loading(k).at = "load" /\ Loading(k).key = k
  /\ \A k, v : Loaded(k, v).at = "store" /\ Loaded(k, v).key = k
               /\ Loaded(k, v).view = v
  BY DEF Idle, Loading, Loaded

-----------------------------------------------------------------------------
(***************************************************************************)
(* A statement writes the row, or the database transaction is rolled back. *)
(***************************************************************************)
LEMMA WriteCases ==
  ASSUME NEW w \in Writers, CreateTransaction(w) \/ UpdateTransactionStatus(w)
  PROVE  writer[w] = "write" /\ (Throw(w) \/ Save(w))
<1>1. CASE CreateTransaction(w)
  BY <1>1, Zenon DEF CreateTransaction
<1>2. CASE UpdateTransactionStatus(w)
  BY <1>2, Zenon DEF UpdateTransactionStatus
<1> QED BY <1>1, <1>2

LEMMA LoadCases ==
  ASSUME TypeOK, NEW r \in Readers, Load(r)
  PROVE  /\ reader[r].key \in ReadableKeys
         /\ UNCHANGED <<database, since, writing, cache>>
         /\ \/ reader' = [reader EXCEPT ![r] = Idle]
            \/ /\ ~ NotFound(reader[r].key, version)
               /\ reader' = [reader EXCEPT ![r] =
                               Loaded(reader[r].key, View(reader[r].key, version))]
<1>1. reader[r].key \in ReadableKeys
  BY ReaderStates DEF TypeOK, ViewsTypeOK, Load
<1>2. CASE NotFound(reader[r].key, version)
  BY <1>1, <1>2 DEF Load, Read
<1>3. CASE ~ NotFound(reader[r].key, version)
  BY <1>1, <1>3 DEF Load, Read
<1> QED BY <1>2, <1>3

LEMMA WritersTypeStep ==
  ASSUME IInv, [Next]_vars
  PROVE  WritersTypeOK'
<1> USE DEF IInv, TypeOK, WritersTypeOK, Goto, database, writing
<1>1. ASSUME NEW w \in Writers, Begin(w) PROVE WritersTypeOK'
  BY <1>1 DEF Begin
<1>2. ASSUME NEW w \in Writers, Throw(w) PROVE WritersTypeOK'
  BY <1>2 DEF Throw, Unlock
<1>3. ASSUME NEW w \in Writers, Save(w), writer[w] = "write" PROVE WritersTypeOK'
  <2>1. Row(w) \in Transactions
    BY RowOfWriter
  <2>2. newest' \in [Transactions -> Nat] /\ UNCHANGED <<version, past, since, writes>>
    BY <1>3, <2>1 DEF Save
  <2>3. owner' \in [Transactions -> {{}} \cup {{x} : x \in Writers}]
    BY <1>3, <2>1 DEF Save
  <2>4. "delTenant" \in DOMAIN After
    BY AfterSteps
  <2> QED BY <1>3, <2>2, <2>3, <2>4 DEF Save
<1>4. ASSUME NEW w \in Writers, Delete(w) PROVE WritersTypeOK'
  BY <1>4, AfterSteps DEF Delete, Forget
<1>5. ASSUME NEW w \in Writers, NextWrite(w) PROVE WritersTypeOK'
  <2>1. writes[w] + 1 \in 1..Len(WritesOf[w])
    BY <1>5, RowOfWriter DEF NextWrite
  <2>2. /\ writes' \in [Writers -> Nat]
        /\ \A x \in Writers : writes'[x] \in 1..Len(WritesOf[x])
    BY <1>5, <2>1 DEF NextWrite
  <2> QED BY <1>5, <2>2 DEF NextWrite
<1>6. ASSUME NEW w \in Writers, Commit(w) PROVE WritersTypeOK'
  BY <1>6 DEF Commit, Unlock
<1>7. ASSUME NEW r \in Readers, NEW k \in AskedKeys, Get(r, k) \/ Fail(r)
      PROVE  WritersTypeOK'
  BY <1>7 DEF Get, Fail
<1>8. ASSUME NEW r \in Readers, Load(r) PROVE WritersTypeOK'
  BY <1>8 DEF Load
<1>9. ASSUME NEW r \in Readers, Store(r) PROVE WritersTypeOK'
  BY <1>9 DEF Store
<1>10. ASSUME NEW k \in CacheKeys, Expire(k) PROVE WritersTypeOK'
  BY <1>10 DEF Expire, Forget
<1>11. CASE UNCHANGED vars
  BY <1>11 DEF vars
<1> QED
  BY <1>1, <1>2, <1>3, <1>4, <1>5, <1>6, <1>7, <1>8, <1>9, <1>10, <1>11,
     WriteCases DEF Next, WriterStep, Fail

LEMMA ViewsTypeStep ==
  ASSUME IInv, [Next]_vars
  PROVE  ViewsTypeOK'
<1> USE DEF IInv, TypeOK, ViewsTypeOK
<1>1. ASSUME UNCHANGED <<cache, reader>> PROVE ViewsTypeOK'
  BY <1>1
<1>2. ASSUME NEW w \in Writers, Delete(w) PROVE ViewsTypeOK'
  BY <1>2 DEF Delete, Forget
<1>3. ASSUME NEW k \in CacheKeys, Expire(k) PROVE ViewsTypeOK'
  BY <1>3 DEF Expire, Forget
<1>4. ASSUME NEW r \in Readers, NEW k \in AskedKeys, Get(r, k) PROVE ViewsTypeOK'
  BY <1>4, AskedKeysAssumption DEF Get, Read
<1>5. ASSUME NEW r \in Readers, Load(r) PROVE ViewsTypeOK'
  <2>1. IsView(reader[r].key, View(reader[r].key, version))
    BY <1>5, LoadCases, ViewsAreViews DEF WritersTypeOK
  <2> QED BY <1>5, <2>1, LoadCases, ReaderStates
<1>6. ASSUME NEW r \in Readers, Store(r) PROVE ViewsTypeOK'
  BY <1>6, ReaderStates DEF Store, Read
<1>7. ASSUME NEW r \in Readers, Fail(r) PROVE ViewsTypeOK'
  BY <1>7 DEF Fail, Read
<1>8. CASE UNCHANGED vars
  BY <1>8 DEF vars
<1>9. ASSUME NEW w \in Writers,
             Begin(w) \/ Throw(w) \/ Save(w) \/ NextWrite(w) \/ Commit(w)
      PROVE  UNCHANGED <<cache, reader>>
  BY <1>9 DEF Begin, Throw, Save, NextWrite, Commit
<1> QED
  BY <1>1, <1>2, <1>3, <1>4, <1>5, <1>6, <1>7, <1>8, <1>9, WriteCases
  DEF Next, WriterStep

-----------------------------------------------------------------------------
(***************************************************************************)
(* A view that is stored or about to be is the committed state of a moment *)
(* that is now in the past, and stays one.                                 *)
(***************************************************************************)
LEMMA PastGrows ==
  ASSUME IInv, [Next]_vars
  PROVE  past \subseteq past' /\ version' \in past'
<1> USE DEF IInv, NothingElseIsStored, database
<1>1. ASSUME NEW w \in Writers, Begin(w) \/ Throw(w) \/ Save(w) \/ Delete(w)
                                \/ NextWrite(w) \/ Commit(w)
      PROVE  past \subseteq past' /\ version' \in past'
  BY <1>1 DEF Begin, Throw, Save, Delete, NextWrite, Commit
<1>2. ASSUME NEW r \in Readers, NEW k, Get(r, k) \/ Load(r) \/ Store(r) \/ Fail(r)
      PROVE  past \subseteq past' /\ version' \in past'
  BY <1>2 DEF Get, Load, Store, Fail
<1>3. ASSUME NEW k \in CacheKeys, Expire(k)
      PROVE  past \subseteq past' /\ version' \in past'
  BY <1>3 DEF Expire
<1>4. CASE UNCHANGED vars
  BY <1>4 DEF vars
<1> QED BY <1>1, <1>2, <1>3, <1>4, WriteCases DEF Next, WriterStep

(***************************************************************************)
(* What a step makes of the cache and of the readers: entries disappear, a *)
(* reader stores what it has loaded, or loads what is committed.           *)
(***************************************************************************)
LEMMA ViewSteps ==
  ASSUME IInv, [Next]_vars
  PROVE  /\ \A k \in CacheKeys : \A v \in cache'[k] :
              \/ v \in cache[k]
              \/ \E r \in Readers : /\ reader[r].at = "store"
                                    /\ reader[r].key = k /\ reader[r].view = v
         /\ \A r \in Readers : reader'[r].at = "store" =>
              \/ reader'[r] = reader[r]
              \/ /\ reader'[r].key \in ReadableKeys
                 /\ ~ NotFound(reader'[r].key, version)
                 /\ reader'[r].view = View(reader'[r].key, version)
<1> DEFINE Q == /\ \A k \in CacheKeys : \A v \in cache'[k] :
                     \/ v \in cache[k]
                     \/ \E r \in Readers : /\ reader[r].at = "store"
                                           /\ reader[r].key = k
                                           /\ reader[r].view = v
                /\ \A r \in Readers : reader'[r].at = "store" =>
                     \/ reader'[r] = reader[r]
                     \/ /\ reader'[r].key \in ReadableKeys
                        /\ ~ NotFound(reader'[r].key, version)
                        /\ reader'[r].view = View(reader'[r].key, version)
<1> USE DEF IInv, TypeOK, ViewsTypeOK
<1>1. ASSUME UNCHANGED <<cache, reader>> PROVE Q
  BY <1>1
<1>2. ASSUME NEW w \in Writers, Delete(w) PROVE Q
  BY <1>2 DEF Delete, Forget
<1>3. ASSUME NEW k \in CacheKeys, Expire(k) PROVE Q
  BY <1>3 DEF Expire, Forget
<1>4. ASSUME NEW r \in Readers, NEW k \in AskedKeys, Get(r, k) PROVE Q
  BY <1>4, ReaderStates DEF Get, Read
<1>5. ASSUME NEW r \in Readers, Load(r) PROVE Q
  <2>1. CASE reader' = [reader EXCEPT ![r] = Idle]
    BY <1>5, <2>1, LoadCases, ReaderStates
  <2>2. CASE reader' # [reader EXCEPT ![r] = Idle]
    BY <1>5, <2>2, LoadCases, ReaderStates
  <2> QED BY <2>1, <2>2
<1>6. ASSUME NEW r \in Readers, Store(r) PROVE Q
  BY <1>6, ReaderStates DEF Store, Read
<1>7. ASSUME NEW r \in Readers, Fail(r) PROVE Q
  BY <1>7, ReaderStates DEF Fail, Read
<1>8. ASSUME NEW w \in Writers,
             Begin(w) \/ Throw(w) \/ Save(w) \/ NextWrite(w) \/ Commit(w)
      PROVE  UNCHANGED <<cache, reader>>
  BY <1>8 DEF Begin, Throw, Save, NextWrite, Commit
<1>9. \/ UNCHANGED <<cache, reader>>
      \/ \E w \in Writers : Delete(w)
      \/ \E k \in CacheKeys : Expire(k)
      \/ \E r \in Readers :
           (\E k \in AskedKeys : Get(r, k)) \/ Load(r) \/ Store(r) \/ Fail(r)
  BY <1>8, WriteCases DEF Next, WriterStep, vars
<1> QED BY <1>1, <1>2, <1>3, <1>4, <1>5, <1>6, <1>7, <1>9, Zenon

LEMMA SnapshotsStep ==
  ASSUME IInv, [Next]_vars
  PROVE  OnlySnapshotsAreShown'
<1> USE DEF IInv, OnlySnapshotsAreShown, IsSnapshot, NothingElseIsStored
<1>1. version \in past' /\ past \subseteq past'
  BY PastGrows
<1>2. ASSUME NEW k \in CacheKeys, NEW v \in cache'[k]
      PROVE  \E p \in past' : v = View(k, p)
  BY <1>1, <1>2, ViewSteps
<1>3. ASSUME NEW r \in Readers, reader'[r].at = "store"
      PROVE  \E p \in past' : reader'[r].view = View(reader'[r].key, p)
  <2>1. CASE reader'[r] = reader[r]
    BY <1>1, <1>3, <2>1
  <2>2. CASE reader'[r].view = View(reader'[r].key, version)
    BY <1>1, <2>2
  <2> QED BY <1>3, <2>1, <2>2, ViewSteps
<1> QED BY <1>2, <1>3

(***************************************************************************)
(* Nothing is stored but what was asked for and found.                     *)
(***************************************************************************)
LEMMA NothingElseStep ==
  ASSUME IInv, [Next]_vars
  PROVE  NothingElseIsStored'
<1> USE DEF IInv, NothingElseIsStored
<1>1. version' \in past'
  BY PastGrows
<1>2. ASSUME NEW k \in CacheKeys, NEW v \in cache'[k]
      PROVE  k \in ReadableKeys /\ ~ NotFound(k, v)
  <2>1. CASE v \in cache[k]
    BY <2>1
  <2>2. ASSUME NEW r \in Readers, reader[r].at = "store",
               reader[r].key = k, reader[r].view = v
        PROVE  k \in ReadableKeys /\ ~ NotFound(k, v)
    BY <2>2, ReaderStates DEF TypeOK, ViewsTypeOK
  <2> QED BY <1>2, <2>1, <2>2, ViewSteps
<1>3. ASSUME NEW r \in Readers, reader'[r].at = "store"
      PROVE  ~ NotFound(reader'[r].key, reader'[r].view)
  <2>1. CASE reader'[r] = reader[r]
    BY <1>3, <2>1
  <2>2. ASSUME NEW k \in ReadableKeys, ~ NotFound(k, version)
        PROVE  ~ NotFound(k, View(k, version))
    BY <2>2, CoversOfKeys, KeysDiffer DEF NotFound, View, RowKeys
  <2> QED BY <1>3, <2>1, <2>2, ViewSteps
<1> QED BY <1>1, <1>2, <1>3

-----------------------------------------------------------------------------
(***************************************************************************)
(* A writer deletes the keys of each of its rows before it goes on to the  *)
(* next row or to the commit.                                              *)
(***************************************************************************)
LEMMA WatchedKeys ==
  ASSUME NEW k \in {TenantKey} \cup RowKeys
  PROVE  /\ k \in CacheKeys
         /\ k # TenantKey => k \in RowKeys /\ RowKey(k[2]) = k /\ Covers(k) = {k[2]}
  BY CoversOfKeys, KeysDiffer DEF CacheKeys, ReadableKeys, RowKeys

LEMMA DeletionsStep ==
  ASSUME IInv, [Next]_vars
  PROVE  DeletionsAreMade'
<1> USE DEF IInv, TypeOK, WritersTypeOK, DeletionsAreMade, Row
<1>1. ASSUME NEW w \in Writers, Begin(w) PROVE DeletionsAreMade'
  BY <1>1, WatchedKeys, AfterSteps DEF Begin, Goto
<1>2. ASSUME NEW w \in Writers, Throw(w) PROVE DeletionsAreMade'
  BY <1>2 DEF Throw, Goto
<1>3. ASSUME NEW w \in Writers, Save(w), writer[w] = "write"
      PROVE  DeletionsAreMade'
  BY <1>3 DEF Save, Goto
<1>4. ASSUME NEW w \in Writers, Delete(w) PROVE DeletionsAreMade'
  <2>1. /\ writes' = writes
        /\ writer' = [writer EXCEPT ![w] = After[writer[w]]]
        /\ writer[w] \in {"delTenant", "delUser", "delRow"}
        /\ since' = [since EXCEPT ![DeletedKey(writer[w], Row(w))] = {}]
    BY <1>4, AfterSteps DEF Delete, Forget, Goto
  <2>2. Row(w) \in Transactions
    BY RowOfWriter
  <2>3. CASE writer[w] = "delTenant"
    BY <2>1, <2>2, <2>3, WatchedKeys, DeletedKeys, AfterSteps
  <2>4. CASE writer[w] = "delUser"
    BY <2>1, <2>2, <2>4, WatchedKeys, DeletedKeys, AfterSteps
  <2>5. CASE writer[w] = "delRow"
    <3>1. ASSUME NEW k \in {TenantKey} \cup RowKeys, NEW x \in since'[k]
          PROVE  x \in since[k] /\ k # RowKey(Row(w))
      BY <2>1, <2>2, <2>5, <3>1, WatchedKeys, DeletedKeys
    <3>2. writer' = [writer EXCEPT ![w] = "next"]
      BY <2>1, <2>5, AfterSteps
    <3>3. ASSUME NEW k \in {TenantKey} \cup RowKeys, w \in since'[k]
          PROVE  Row(w) \notin Covers(k)
      <4>1. w \in since[k] /\ k # RowKey(Row(w))
        BY <3>1, <3>3
      <4>2. k # TenantKey
        BY <2>5, <4>1
      <4>3. RowKey(k[2]) = k /\ Covers(k) = {k[2]}
        BY <4>2, WatchedKeys
      <4> HIDE DEF Row
      <4> QED BY <4>1, <4>3
    <3> QED BY <2>1, <3>1, <3>2, <3>3
  <2> QED BY <2>1, <2>3, <2>4, <2>5
<1>5. ASSUME NEW w \in Writers, NextWrite(w) PROVE DeletionsAreMade'
  BY <1>5, WatchedKeys DEF NextWrite, Goto
<1>6. ASSUME NEW w \in Writers, Commit(w) PROVE DeletionsAreMade'
  BY <1>6, WatchedKeys DEF Commit, Goto
<1>7. ASSUME NEW r \in Readers, NEW k \in AskedKeys, Get(r, k) \/ Fail(r)
      PROVE  DeletionsAreMade'
  BY <1>7 DEF Get, Fail, writing
<1>8. ASSUME NEW r \in Readers, Load(r) PROVE DeletionsAreMade'
  BY <1>8 DEF Load, writing
<1>9. ASSUME NEW r \in Readers, Store(r) PROVE DeletionsAreMade'
  BY <1>9, WatchedKeys DEF Store, writing
<1>10. ASSUME NEW k \in CacheKeys, Expire(k) PROVE DeletionsAreMade'
  BY <1>10, WatchedKeys DEF Expire, Forget, writing
<1>11. CASE UNCHANGED vars
  BY <1>11 DEF vars
<1>12. ASSUME NEW r \in Readers, Fail(r) PROVE DeletionsAreMade'
  BY <1>12 DEF Fail, writing
<1> QED
  BY <1>1, <1>2, <1>3, <1>4, <1>5, <1>6, <1>7, <1>8, <1>9, <1>10, <1>11, <1>12,
     WriteCases DEF Next, WriterStep

-----------------------------------------------------------------------------
LEMMA InitIInv ==
  ASSUME Init
  PROVE  IInv
<1> USE DEF Init
<1>1. \A w \in Writers : Len(WritesOf[w]) \in Nat \ {0}
  BY WritesOfAssumption, EmptySeq
<1>2. WritersTypeOK
  BY <1>1, InitialVersionAssumption DEF WritersTypeOK
<1>3. ViewsTypeOK
  BY DEF ViewsTypeOK
<1>4. OnlySnapshotsAreShown
  BY ReaderStates DEF OnlySnapshotsAreShown
<1>5. NothingElseIsStored
  BY ReaderStates DEF NothingElseIsStored
<1>6. DeletionsAreMade
  BY WatchedKeys DEF DeletionsAreMade
<1> QED BY <1>2, <1>3, <1>4, <1>5, <1>6 DEF IInv, TypeOK

(***************************************************************************)
(* The invariant holds in every reachable state.                           *)
(***************************************************************************)
THEOREM CacheInvariance == Spec => []IInv
<1>1. Init => IInv
  BY InitIInv
<1>2. IInv /\ [Next]_vars => IInv'
  BY WritersTypeStep, ViewsTypeStep, SnapshotsStep, NothingElseStep, DeletionsStep
  DEF IInv, TypeOK
<1> QED BY <1>1, <1>2, PTL DEF Spec

(***************************************************************************)
(* Every variable keeps its type, and a view stored under a key shows the  *)
(* rows the key stands for.                                                *)
(***************************************************************************)
THEOREM CacheTypes == Spec => []TypeOK
<1>1. IInv => TypeOK
  BY DEF IInv
<1> QED BY <1>1, CacheInvariance, PTL

(***************************************************************************)
(* What is stored or answered is the committed state of one moment: never  *)
(* half a transfer, never what was rolled back (findAllByTenantId,         *)
(* findByIdAndTenantId).                                                   *)
(***************************************************************************)
THEOREM SnapshotsOnly == Spec => []OnlySnapshotsAreShown
<1>1. IInv => OnlySnapshotsAreShown
  BY DEF IInv
<1> QED BY <1>1, CacheInvariance, PTL

(***************************************************************************)
(* Nothing in the cache says 404 of a committed row (findByIdAndTenantId). *)
(***************************************************************************)
THEOREM CommittedRowsFound == Spec => []NewRowsAreFound
<1>1. IInv => NewRowsAreFound
  BY DEF IInv, NothingElseIsStored, NewRowsAreFound, CacheKeys, ReadableKeys, RowKeys
<1> QED BY <1>1, CacheInvariance, PTL

(***************************************************************************)
(* What was stored before a writer began is gone when it has committed, if *)
(* the tenant's list or a row it wrote (createTransaction,                 *)
(* updateTransactionStatus).                                               *)
(***************************************************************************)
THEOREM CommitsDeleteOlder == Spec => []OlderEntriesAreDeleted
<1>1. IInv => OlderEntriesAreDeleted
  <2> SUFFICES ASSUME IInv, NEW k \in {TenantKey} \cup RowKeys, NEW w \in since[k],
                      writer[w] = "committed", NEW i \in DOMAIN WritesOf[w]
               PROVE  WritesOf[w][i].row \notin Covers(k)
    BY DEF OlderEntriesAreDeleted, RowsOf
  <2>1. w \in Writers /\ writes[w] = Len(WritesOf[w])
    BY WatchedKeys DEF IInv, TypeOK, WritersTypeOK, DeletionsAreMade
  <2>2. i \in 1..Len(WritesOf[w]) /\ Len(WritesOf[w]) \in Nat
    BY <2>1, WritesOfAssumption
  <2>3. CASE i = writes[w]
    BY <2>3 DEF IInv, DeletionsAreMade, Row
  <2>4. CASE i \in 1..(writes[w] - 1)
    BY <2>4 DEF IInv, DeletionsAreMade
  <2> QED BY <2>1, <2>2, <2>3, <2>4
<1> QED BY <1>1, CacheInvariance, PTL
=============================================================================
