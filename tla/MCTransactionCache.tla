-------------------------- MODULE MCTransactionCache --------------------------
(***************************************************************************)
(* A webhook settles a withdrawal t1; a deposit creates the row t2 and     *)
(* updates it twice, in one database transaction; two clients read the     *)
(* lists of the tenant and of its user, and the new row.                   *)
(***************************************************************************)
EXTENDS TransactionCache, TLC

CONSTANTS t1, t2, wallet, user, webhook, deposit, reader1, reader2

MCInitialVersion == t1 :> 1 @@ t2 :> 0
MCWalletOf == t1 :> wallet @@ t2 :> wallet
MCRowsOfUser == user :> {t1, t2}

Create(t) == [op |-> "create", row |-> t]
Update(t) == [op |-> "update", row |-> t]

MCWritesOf ==
  webhook :> <<Update(t1)>> @@ deposit :> <<Create(t2), Update(t2), Update(t2)>>

MCAskedKeys == {TenantKey, UserKey(user), RowKey(t2)}
=============================================================================
