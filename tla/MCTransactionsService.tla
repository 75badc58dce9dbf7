----------------------- MODULE MCTransactionsService -----------------------
(***************************************************************************)
(* Small instances of TransactionsService for TLC.                         *)
(***************************************************************************)
EXTENDS TransactionsService, TLC

CONSTANTS r1, r2, r3, w1, w2, w3, k1, k2

(***************************************************************************)
(* A wallet of alice and one of bob in one tenant and currency, and one of *)
(* carol in another tenant and another currency.                           *)
(***************************************************************************)
MCWalletInfo ==
  w1 :> [tenantId |-> "t1", userId |-> "alice", currency |-> "USD"]
    @@ w2 :> [tenantId |-> "t1", userId |-> "bob", currency |-> "USD"]
    @@ w3 :> [tenantId |-> "t2", userId |-> "carol", currency |-> "EUR"]

MCOpeningBalance == w1 :> 3 @@ w2 :> 1 @@ w3 :> 0

Body(op, w, dest, amount, provider, key) ==
  [op |-> op, tenantId |-> MCWalletInfo[w].tenantId,
   userId |-> MCWalletInfo[w].userId, walletId |-> w, dest |-> dest,
   amount |-> amount, currency |-> MCWalletInfo[w].currency,
   provider |-> provider, key |-> key]

(***************************************************************************)
(* Two withdrawals that cannot both be paid, transfers in both directions  *)
(* (so that requests can wait for each other), a deposit that may overflow *)
(* the column, a retry of each under the same key.                         *)
(***************************************************************************)
MoneyInputs ==
  { Body("WITHDRAWAL", w1, w1, 2, "paystack", k1),
    Body("WITHDRAWAL", w1, w1, 2, "paystack", k2),
    Body("TRANSFER",   w1, w2, 2, "none",     k1),
    Body("TRANSFER",   w2, w1, 1, "none",     k2),
    Body("DEPOSIT",    w2, w2, 1, "paystack", k2) }

(***************************************************************************)
(* Requests the services turn away: another user's wallet, a foreign       *)
(* currency or tenant, the same wallet twice, an unknown provider, a key   *)
(* another tenant uses.                                                    *)
(***************************************************************************)
ImproperInputs ==
  { [Body("DEPOSIT", w1, w1, 1, "paystack", k1) EXCEPT !.userId = "bob"],
    [Body("DEPOSIT", w1, w1, 1, "paystack", k1) EXCEPT !.currency = "EUR"],
    Body("TRANSFER", w1, w3, 1, "none", k1),
    Body("TRANSFER", w1, w1, 1, "none", k1),
    Body("DEPOSIT",  w2, w2, 1, "unknown", k2),
    Body("DEPOSIT",  w3, w3, 4, "paystack", k1),
    Body("WITHDRAWAL", w1, w1, 3, "paystack", k1),
    Body("DEPOSIT",  w1, w1, 2, "paystack", k2) }

AllInputs == MoneyInputs \cup ImproperInputs

(***************************************************************************)
(* Amounts of half a cent, which the request DTOs accept.                  *)
(***************************************************************************)
HalfCentInputs ==
  { Body("TRANSFER", w1, w2, 1, "none", k1),
    Body("TRANSFER", w1, w2, 3, "none", k2),
    Body("DEPOSIT",  w2, w2, 1, "paystack", k2) }

Symmetry == Permutations({r1, r2, r3})
=============================================================================
