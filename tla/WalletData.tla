----------------------------- MODULE WalletData -----------------------------
(***************************************************************************)
(* What the tables of the wallet system hold, and the arithmetic of the    *)
(* two decimal columns, shared by every module that moves money.           *)
(*                                                                         *)
(* A wallet's balance and a transaction's amount are decimal(18, 2)        *)
(* columns: whole cents.  An amount in a request is any positive number,   *)
(* so it is counted in ticks, Scale of them to the cent, and PostgreSQL    *)
(* rounds to the nearest cent (halves away from zero) whenever it stores   *)
(* a result in one of those columns.                                       *)
(***************************************************************************)
EXTENDS Integers

CONSTANTS
  Requests,        \* calls of the three operations, each made at most once
  Wallets,         \* primary keys of the wallets table
  WalletInfo,      \* the immutable columns of each wallet's row
  OpeningBalance,  \* balances when the modelled period starts, in cents
  Keys,            \* values of the idempotency-key header
  NoKey,           \* SQL NULL in a key column
  Scale,           \* ticks in a cent
  MaxBalance       \* largest value of a decimal(18, 2), in cents

ASSUME NoKeyAssumption == NoKey \notin Keys
ASSUME ScaleAssumption == Scale \in Nat \ {0}
ASSUME MaxBalanceAssumption == MaxBalance \in Nat
ASSUME OpeningAssumption == OpeningBalance \in [Wallets -> 0..MaxBalance]

Operations == {"DEPOSIT", "WITHDRAWAL", "TRANSFER"}
TransactionStatus == {"PENDING", "SUCCESS", "FAILED", "REVERSED"}

(***************************************************************************)
(* Rounding a number of ticks to cents, and the expression                 *)
(* "balance + amount" that updateWalletBalance stores.                     *)
(***************************************************************************)
RoundToCents(t) ==
  IF t >= 0 THEN (2 * t + Scale) \div (2 * Scale)
            ELSE -((Scale - 2 * t) \div (2 * Scale))

PlusAmount(cents, ticks) == RoundToCents(cents * Scale + ticks)

(***************************************************************************)
(* The rows of the transactions table.  A row is identified by the request *)
(* that created it and by its wallet: a transfer creates one row in each   *)
(* of two wallets, and only the row of the source carries the key.         *)
(***************************************************************************)
TransactionRows ==
  [req : Requests, walletId : Wallets, type : Operations, amount : Int,
   status : TransactionStatus, idempotencyKeyId : Keys \cup {NoKey}]

Row(r, in, wallet, status, key) ==
  [req |-> r, walletId |-> wallet, type |-> in.op,
   amount |-> RoundToCents(in.amount), status |-> status,
   idempotencyKeyId |-> key]

CreatedRows(r, in, status) ==
  {Row(r, in, in.walletId, status, in.key)} \cup
    IF in.op = "TRANSFER" THEN {Row(r, in, in.dest, status, NoKey)} ELSE {}

(***************************************************************************)
(* The signed number of ticks a request moves in a wallet, and the wallets *)
(* it moves.                                                               *)
(***************************************************************************)
Movement(in, w) ==
  IF w = in.walletId /\ in.op # "DEPOSIT" THEN -in.amount ELSE in.amount

Touched(in) ==
  IF in.op = "TRANSFER" THEN {in.walletId, in.dest} ELSE {in.walletId}

(***************************************************************************)
(* The status a request's rows have when it commits: a withdrawal waits    *)
(* for the provider's webhook, the others are final.                       *)
(***************************************************************************)
FinalStatus(op) == IF op = "WITHDRAWAL" THEN "PENDING" ELSE "SUCCESS"

(***************************************************************************)
(* The bodies of the three kinds of request, after the DTO validation: the *)
(* amount is positive, and a transfer names a second wallet.               *)
(***************************************************************************)
IsRequestBody(in) ==
  /\ in.op \in Operations
  /\ in.walletId \in Wallets
  /\ in.op = "TRANSFER" => in.dest \in Wallets
  /\ in.amount \in Nat \ {0}
  /\ in.key \in Keys
=============================================================================
