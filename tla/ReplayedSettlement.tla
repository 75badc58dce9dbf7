------------------------- MODULE ReplayedSettlement -------------------------
(***************************************************************************)
(* What is left of Settlement when operators replay events and one worker  *)
(* processes them.  Money still moves once: a withdrawal is paid out or    *)
(* refunded when it leaves PENDING, which it does once, and a payment is   *)
(* credited in one event of however many report it.  But a status is not   *)
(* final: a later report that contradicts it replaces it, without money.   *)
(***************************************************************************)
EXTENDS Settlement

VARIABLE recorded   \* the payments that a deposit row records

allVars == <<vars, recorded>>

InitRecorded == Init /\ recorded = {}

Contradict(t) ==
  /\ \/ txStatus[t] \in {"FAILED", "REVERSED"} /\ Become(t, "SUCCESS")
     \/ txStatus[t] = "SUCCESS" /\ Become(t, "FAILED")
  /\ UNCHANGED <<balance, credited, recorded>>

CreditOnce(e, p) ==
  /\ p \notin recorded
  /\ recorded' = recorded \cup {p}
  /\ CreditPayment(e, p)

NextRecorded ==
  \/ \E t \in Withdrawals :
       (Withdraw(t) \/ Succeed(t) \/ Reverse(t)) /\ UNCHANGED recorded
  \/ \E t \in Transactions : Contradict(t)
  \/ \E e \in Events, p \in Payments : CreditOnce(e, p)

SpecRecorded == InitRecorded /\ [][NextRecorded]_allVars
=============================================================================
