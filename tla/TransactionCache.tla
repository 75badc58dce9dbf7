--------------------------- MODULE TransactionCache ---------------------------
(***************************************************************************)
(* The read-through cache of TransactionsService: findAllByTenantId and    *)
(* findByIdAndTenantId fill it, createTransaction and                      *)
(* updateTransactionStatus delete from it, inside their callers' database  *)
(* transactions.                                                           *)
(*                                                                         *)
(* A row is reduced to its version: 0 before its insert, one more for each *)
(* update.  Every cache key holds the id of the tenant, so one tenant is   *)
(* modelled.  A step is one await: a statement or a command of the cache.  *)
(***************************************************************************)
EXTENDS Integers, Sequences

CONSTANTS
  Transactions,    \* ids of the tenant's rows of transactions
  InitialVersion,  \* their versions at first
  Wallets,         \* ids of its wallets
  Users,           \* ids of its users
  WalletOf,        \* the wallet of each row
  RowsOfUser,      \* the rows that match the array of a user's wallet ids
  Tenant,          \* the tenant's id
  Writers,         \* database transactions that write rows
  WritesOf,        \* what each one writes, in order
  Readers,         \* clients that read, each one thing at a time
  AskedKeys        \* the cache keys of what they read

ASSUME InitialVersionAssumption == InitialVersion \in [Transactions -> Nat]
ASSUME WalletOfAssumption == WalletOf \in [Transactions -> Wallets]
ASSUME RowsOfUserAssumption == RowsOfUser \in [Users -> SUBSET Transactions]
ASSUME WritesOfAssumption ==
  WritesOf \in [Writers -> Seq([op : {"create", "update"}, row : Transactions])
                            \ {<<>>}]

VARIABLES
  version,   \* committed version of each row
  newest,    \* newest version, perhaps not committed
  owner,     \* the writer that has locked each row, as a set
  writer,    \* where each writer is
  writes,    \* the index of the write it is at
  cache,     \* what each key holds: {} or the one view stored
  reader,    \* where each reader is, with its key and what it has loaded
  past,      \* history: the committed versions there have been
  since      \* history: the writers that began after a key was stored

database == <<version, newest, owner, past>>
writing == <<writer, writes>>
vars == <<version, newest, owner, writer, writes, cache, reader, past, since>>

(***************************************************************************)
(* The three kinds of keys.  The list of a user has the user's id in its   *)
(* key when it is read, and a wallet's id when it is deleted.              *)
(***************************************************************************)
TenantKey == <<"transactions_tenant", Tenant>>
UserKey(id) == <<"transactions_user", id>>
RowKey(t) == <<"transaction", t>>

RowKeys == {RowKey(t) : t \in Transactions}
ReadableKeys == {TenantKey} \cup {UserKey(u) : u \in Users} \cup RowKeys
CacheKeys == ReadableKeys \cup {UserKey(w) : w \in Wallets}

ASSUME AskedKeysAssumption == AskedKeys \subseteq ReadableKeys

Covers(k) ==
  CASE k = TenantKey -> Transactions
    [] k \in RowKeys -> {k[2]}
    [] OTHER         -> RowsOfUser[k[2]]

View(k, versions) == [t \in Covers(k) |-> versions[t]]

Idle == [at |-> "idle"]
Loading(k) == [at |-> "load", key |-> k]
Loaded(k, v) == [at |-> "store", key |-> k, view |-> v]

NotFound(k, versions) == k \in RowKeys /\ versions[k[2]] = 0

-----------------------------------------------------------------------------
Init ==
  /\ version = InitialVersion
  /\ newest = version
  /\ owner = [t \in Transactions |-> {}]
  /\ writer = [w \in Writers |-> "idle"]
  /\ writes = [w \in Writers |-> 1]
  /\ cache = [k \in CacheKeys |-> {}]
  /\ reader = [r \in Readers |-> Idle]
  /\ past = {version}
  /\ since = [k \in CacheKeys |-> {}]

(***************************************************************************)
(* A writer: createTransaction or updateTransactionStatus, each of them a  *)
(* statement and three deletions, for each of its rows; then the caller's  *)
(* commit.                                                                 *)
(***************************************************************************)
Row(w) == WritesOf[w][writes[w]].row
Op(w) == WritesOf[w][writes[w]].op

Goto(w, step) == writer' = [writer EXCEPT ![w] = step]

Written(w) == {t \in Transactions : owner[t] = {w}}

Unlock(w) == owner' = [t \in Transactions |-> owner[t] \ {w}]

Begin(w) ==
  /\ writer[w] = "idle"
  /\ Goto(w, "write")
  /\ since' = [k \in CacheKeys |->
                 IF cache[k] = {} THEN {} ELSE since[k] \cup {w}]
  /\ UNCHANGED <<database, writes, cache, reader>>

(***************************************************************************)
(* Any statement may throw, the commands of the cache included, and other  *)
(* statements of the same database transaction: it is rolled back.         *)
(***************************************************************************)
Throw(w) ==
  /\ writer[w] \notin {"idle", "committed", "aborted"}
  /\ newest' = [t \in Transactions |->
                  IF t \in Written(w) THEN version[t] ELSE newest[t]]
  /\ Unlock(w)
  /\ Goto(w, "aborted")
  /\ UNCHANGED <<version, past, since, writes, cache, reader>>

Save(w) ==
  /\ newest' = [newest EXCEPT ![Row(w)] = @ + 1]
  /\ owner' = [owner EXCEPT ![Row(w)] = {w}]
  /\ Goto(w, "delTenant")
  /\ UNCHANGED <<version, past, since, writes, cache, reader>>

CreateTransaction(w) ==
  /\ writer[w] = "write" /\ Op(w) = "create"
  /\ Save(w)

UpdateTransactionStatus(w) ==
  /\ writer[w] = "write" /\ Op(w) = "update"
  /\ IF version[Row(w)] = 0 /\ owner[Row(w)] # {w}
       THEN Throw(w)                \* no row affected: NotFoundException
       ELSE owner[Row(w)] \subseteq {w} /\ Save(w)

After == [delTenant |-> "delUser", delUser |-> "delRow", delRow |-> "next"]

RowKeyOnly(step, t) == RowKey(t)    \* mutant: the lists are not deleted

DeletedKey(step, t) ==
  CASE step = "delTenant" -> TenantKey
    [] step = "delUser"   -> UserKey(WalletOf[t])
    [] step = "delRow"    -> RowKey(t)

Forget(k) ==
  /\ cache' = [cache EXCEPT ![k] = {}]
  /\ since' = [since EXCEPT ![k] = {}]

Delete(w) ==
  /\ writer[w] \in DOMAIN After
  /\ Forget(DeletedKey(writer[w], Row(w)))
  /\ Goto(w, After[writer[w]])
  /\ UNCHANGED <<database, writes, reader>>

NextWrite(w) ==
  /\ writer[w] = "next"
  /\ writes[w] < Len(WritesOf[w])
  /\ writes' = [writes EXCEPT ![w] = @ + 1]
  /\ Goto(w, "write")
  /\ UNCHANGED <<database, since, cache, reader>>

Commit(w) ==
  /\ writer[w] = "next"
  /\ writes[w] = Len(WritesOf[w])
  /\ version' = [t \in Transactions |->
                   IF t \in Written(w) THEN newest[t] ELSE version[t]]
  /\ past' = past \cup {version'}
  /\ Unlock(w)
  /\ Goto(w, "committed")
  /\ UNCHANGED <<newest, since, writes, cache, reader>>

-----------------------------------------------------------------------------
(***************************************************************************)
(* A reader: look in the cache; if nothing is there, read the committed    *)
(* rows, store them and return them.  A row that does not exist is a 404,  *)
(* and is not stored.  With its answer a reader is idle again.             *)
(***************************************************************************)
Read(r, state) == reader' = [reader EXCEPT ![r] = state]

Get(r, k) ==
  /\ reader[r] = Idle
  /\ cache[k] = {}                  \* else the view there is the answer
  /\ Read(r, Loading(k))
  /\ UNCHANGED <<database, since, writing, cache>>

LoadUncommitted(r) ==               \* mutant: reads on the writer's connection
  /\ reader[r].at = "load"
  /\ LET k == reader[r].key
     IN  Read(r, IF NotFound(k, newest) THEN Idle ELSE Loaded(k, View(k, newest)))
  /\ UNCHANGED <<database, since, writing, cache>>

LoadAlways(r) ==                    \* mutant: a 404 is stored as well
  /\ reader[r].at = "load"
  /\ Read(r, Loaded(reader[r].key, View(reader[r].key, version)))
  /\ UNCHANGED <<database, since, writing, cache>>

Load(r) ==
  /\ reader[r].at = "load"
  /\ LET k == reader[r].key
     IN  Read(r, IF NotFound(k, version) THEN Idle
                                         ELSE Loaded(k, View(k, version)))
  /\ UNCHANGED <<database, since, writing, cache>>

StoreForTenant(r) ==                \* mutant: one key for all lists
  /\ reader[r].at = "store"
  /\ cache' = [cache EXCEPT ![TenantKey] = {reader[r].view}]
  /\ since' = [since EXCEPT ![TenantKey] = {}]
  /\ Read(r, Idle)
  /\ UNCHANGED <<database, writing>>

Store(r) ==
  /\ reader[r].at = "store"
  /\ cache' = [cache EXCEPT ![reader[r].key] = {reader[r].view}]
  /\ since' = [since EXCEPT ![reader[r].key] = {}]
  /\ Read(r, Idle)
  /\ UNCHANGED <<database, writing>>

Fail(r) ==
  /\ reader[r] # Idle
  /\ Read(r, Idle)
  /\ UNCHANGED <<database, since, writing, cache>>

(***************************************************************************)
(* Every entry is stored with the default time to live.                    *)
(***************************************************************************)
ExpireRows(k) ==                    \* mutant: lists have no time to live
  /\ cache[k] # {} /\ k \in RowKeys
  /\ Forget(k)
  /\ UNCHANGED <<database, writing, reader>>

Expire(k) ==
  /\ cache[k] # {}
  /\ Forget(k)
  /\ UNCHANGED <<database, writing, reader>>

WriterStep(w) ==
  \/ Begin(w)
  \/ CreateTransaction(w)
  \/ UpdateTransactionStatus(w)
  \/ Delete(w)
  \/ NextWrite(w)
  \/ Commit(w)
  \/ Throw(w)

Next ==
  \/ \E w \in Writers : WriterStep(w)
  \/ \E r \in Readers :
       (\E k \in AskedKeys : Get(r, k)) \/ Load(r) \/ Store(r) \/ Fail(r)
  \/ \E k \in CacheKeys : Expire(k)

Spec == Init /\ [][Next]_vars

(***************************************************************************)
(* Statements and commands return, entries expire; nobody has to begin a   *)
(* write or a read.                                                        *)
(***************************************************************************)
FairSpec ==
  /\ Spec
  /\ \A r \in Readers : WF_vars(Load(r) \/ Store(r))
  /\ \A k \in CacheKeys : WF_vars(Expire(k))

-----------------------------------------------------------------------------
(***************************************************************************)
(* Every variable stays within its values; a view stored under a key shows *)
(* the rows the key stands for.                                            *)
(***************************************************************************)
IsView(k, v) == DOMAIN v = Covers(k) /\ \A t \in Covers(k) : v[t] \in Nat

WritersTypeOK ==
  /\ version \in [Transactions -> Nat]
  /\ newest \in [Transactions -> Nat]
  /\ owner \in [Transactions -> {{}} \cup {{w} : w \in Writers}]
  /\ writer \in [Writers -> {"idle", "write", "next", "committed", "aborted"}
                              \cup DOMAIN After]
  /\ writes \in [Writers -> Nat]
  /\ \A w \in Writers : writes[w] \in 1..Len(WritesOf[w])
  /\ past \subseteq [Transactions -> Nat]
  /\ since \in [CacheKeys -> SUBSET Writers]

ViewsTypeOK ==
  /\ DOMAIN cache = CacheKeys
  /\ \A k \in CacheKeys : \A v \in cache[k] : IsView(k, v) /\ cache[k] = {v}
  /\ DOMAIN reader = Readers
  /\ \A r \in Readers :
       \/ reader[r] = Idle
       \/ \E k \in ReadableKeys : reader[r] = Loading(k)
       \/ /\ reader[r].at = "store"
          /\ reader[r].key \in ReadableKeys
          /\ IsView(reader[r].key, reader[r].view)

TypeOK == WritersTypeOK /\ ViewsTypeOK

(***************************************************************************)
(* Whatever is stored or answered is the committed state of one moment:    *)
(* never a write that was rolled back or may still be, never one row of a  *)
(* transfer without the other (findAllByTenantId, findByIdAndTenantId).    *)
(***************************************************************************)
IsSnapshot(k, v) == \E p \in past : v = View(k, p)

OnlySnapshotsAreShown ==
  /\ \A k \in CacheKeys : \A v \in cache[k] : IsSnapshot(k, v)
  /\ \A r \in Readers :
       reader[r].at = "store" => IsSnapshot(reader[r].key, reader[r].view)

(***************************************************************************)
(* A client that has the id of a committed transaction finds it: whatever  *)
(* was asked before the commit, and however slowly it was answered,        *)
(* nothing in the cache says 404 (findByIdAndTenantId).                    *)
(***************************************************************************)
NewRowsAreFound ==
  \A t \in Transactions : version[t] > 0 =>
    \A v \in cache[RowKey(t)] : ~ NotFound(RowKey(t), v)

(***************************************************************************)
(* "Invalidate all transactions for tenant", "Invalidate specific          *)
(* transaction": what was stored before a write began is gone when it has  *)
(* committed.  (The deletion of a user's list does not reach its key.)     *)
(***************************************************************************)
RowsOf(w) == {WritesOf[w][i].row : i \in DOMAIN WritesOf[w]}

OlderEntriesAreDeleted ==
  \A k \in {TenantKey} \cup RowKeys :
    \A w \in since[k] : writer[w] = "committed" => RowsOf(w) \cap Covers(k) = {}

(***************************************************************************)
(* An entry stored by a slow reader, or in the time between a deletion and *)
(* the commit, is stale, and no deletion follows.  It does not stay: once  *)
(* nothing is written any more, what is cached is what is committed.       *)
(***************************************************************************)
CacheConverges ==
  \A k \in ReadableKeys : <>[](cache[k] \subseteq {View(k, version)})

(***************************************************************************)
(* The invariant the proofs are by induction on.  Nothing is stored that   *)
(* is not asked for, and no 404; the committed state is one of those there *)
(* have been; and an entry that was there when a writer began has survived *)
(* only the deletions the writer has still to make.                        *)
(***************************************************************************)
NothingElseIsStored ==
  /\ version \in past
  /\ \A k \in CacheKeys : \A v \in cache[k] :
       k \in ReadableKeys /\ ~ NotFound(k, v)
  /\ \A r \in Readers :
       reader[r].at = "store" => ~ NotFound(reader[r].key, reader[r].view)

DeletionsAreMade ==
  /\ \A w \in Writers :
       /\ writer[w] = "idle" => writes[w] = 1
       /\ writer[w] = "committed" => writes[w] = Len(WritesOf[w])
  /\ \A k \in {TenantKey} \cup RowKeys : \A w \in since[k] :
       /\ writer[w] # "idle"
       /\ \A i \in 1..(writes[w] - 1) : WritesOf[w][i].row \notin Covers(k)
       /\ writer[w] \in {"delUser", "delRow"} => k # TenantKey
       /\ writer[w] \in {"next", "committed"} => Row(w) \notin Covers(k)

IInv ==
  /\ TypeOK
  /\ OnlySnapshotsAreShown
  /\ NothingElseIsStored
  /\ DeletionsAreMade
=============================================================================
