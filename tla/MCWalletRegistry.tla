--------------------------- MODULE MCWalletRegistry ---------------------------
(***************************************************************************)
(* Two tenants with a user each, and a wallet of the first.  The e-mail of *)
(* the second user may be registered in the first tenant too.              *)
(***************************************************************************)
EXTENDS WalletRegistry, TLC

CONSTANTS q1, q2, q3, acme, bolt, ann, bob, purse, mail, annsMail, p1, p2,
          USD, EUR

MCTenants == {[id |-> acme, name |-> "acme"], [id |-> bolt, name |-> "bolt"]}

MCUsers ==
  {[id |-> ann, tenantId |-> acme, email |-> annsMail, password |-> p1],
   [id |-> bob, tenantId |-> bolt, email |-> mail, password |-> p2]}

MCWallets ==
  {[id |-> purse, userId |-> ann, tenantId |-> acme, currency |-> USD]}

(***************************************************************************)
(* A provider with accounts, as the two documents spell it, and one        *)
(* without.  (Flutterwave's numbers are apart from Paystack's.)            *)
(***************************************************************************)
MCUpperCase ==
  [paystack |-> "PAYSTACK", PAYSTACK |-> "PAYSTACK", stripe |-> "STRIPE"]

Symmetry == Permutations({q1, q2, q3})
=============================================================================
