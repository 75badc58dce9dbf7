-------------------------- MODULE WebhookEventsProofs --------------------------
(***************************************************************************)
(* What webhooks, jobs and retries guarantee for every set of events and   *)
(* whatever fails.  Types and the order of the statements hold always;     *)
(* what is settled, credited and marked, for any number of workers while   *)
(* nothing is replayed; what moves money, with replays for one worker.     *)
(***************************************************************************)
EXTENDS WebhookEvents, SumTheorems

-----------------------------------------------------------------------------
(***************************************************************************)
(* Outcomes, jobs and database transactions.                               *)
(***************************************************************************)
LEMMA Outcomes ==
  ASSUME NEW p
  PROVE  /\ Outcome(p) \in {"rejected", "ignored", "payment", "success", "failed"}
         /\ Outcome(p) \in {"success", "failed"} => p.subject \in Transactions
         /\ Outcome(p) = "payment" => p.subject \in Payments
<1> DEFINE events == Provider[p.provider]
<1>1. CASE p.provider \notin DOMAIN Provider
  <2>1. Outcome(p) = "rejected"
    BY <1>1, Zenon DEF Outcome
  <2> QED BY <2>1
<1>2. CASE p.provider \in DOMAIN Provider
  <2>1. Outcome(p) =
          CASE p.event \in events.success /\ p.subject \in Transactions -> "success"
            [] p.event \in events.failed /\ p.subject \in Transactions -> "failed"
            [] p.event \in events.payment /\ AccountIsKnown(p) -> "payment"
            [] p.event \in events.payment /\ ~ AccountIsKnown(p) -> "rejected"
            [] OTHER -> "ignored"
    BY <1>2, Zenon DEF Outcome
  <2> HIDE DEF events
  <2>2. \/ Outcome(p) = "success" /\ p.subject \in Transactions
        \/ Outcome(p) = "failed" /\ p.subject \in Transactions
        \/ Outcome(p) = "payment" /\ AccountIsKnown(p)
        \/ Outcome(p) = "rejected"
        \/ Outcome(p) = "ignored"
    BY <2>1, Zenon
  <2> QED BY <2>2 DEF AccountIsKnown
<1> QED BY <1>1, <1>2

LEMMA JobFields ==
  /\ \A e \in Events : /\ Process(e) \in Jobs /\ Replay(e) \in Jobs
                       /\ Process(e).kind = "process" /\ Process(e).event = e
                       /\ Replay(e).kind = "replay" /\ Replay(e).event = e
  /\ \A j \in Jobs : /\ j.event \in Events /\ j.kind \in {"process", "replay"}
                     /\ j.kind = "process" => j = Process(j.event)
                     /\ j.kind = "replay" => j = Replay(j.event)
  BY DEF Jobs, Process, Replay

LEMMA Branches ==
  /\ Branch["rejected"] = "catch" /\ Branch["ignored"] = "mark"
  /\ Branch["payment"] = "readPayment"
  /\ Branch["success"] = "readTransaction" /\ Branch["failed"] = "readTransaction"
  BY DEF Branch

LEMMA Connections ==
  /\ \A j, i : Inner(j) # Outer(i)
  /\ \A j, i : Inner(j) = Inner(i) => j = i
  /\ \A j, i : Outer(j) = Outer(i) => j = i
  /\ \A j \in Jobs : /\ Inner(j) \in Owners /\ Outer(j) \in Owners
                     /\ Inner(j) # NoRow /\ Outer(j) # NoRow
  BY NoRowAssumption DEF Inner, Outer, Owners

(***************************************************************************)
(* The end of an attempt.                                                  *)
(***************************************************************************)
LEMMA LeaveTypes ==
  ASSUME TypeOK, NEW j \in Jobs, Leave(j)
  PROVE  /\ at' \in [Jobs -> {"off", "reset", "readEvent", "readTransaction",
                              "updateStatus", "refund", "readPayment", "credit",
                              "mark", "catch", "return"}]
         /\ seen' \in [Jobs -> {"none", "absent", "PENDING", "SUCCESS", "FAILED",
                                "REVERSED"}]
         /\ linking' \in [Jobs -> Transactions \cup Events \cup {NoRow}]
         /\ owner' \in [Rows -> Owners]
         /\ at'[j] = "off" /\ linking'[j] = NoRow
         /\ \A i \in Jobs \ {j} : /\ at'[i] = at[i] /\ seen'[i] = seen[i]
                                  /\ linking'[i] = linking[i]
  BY DEF TypeOK, Leave, Goto, Unlocked, Owners

JobStates == {"none", "waiting", "active", "completed", "failed"}

LEMMA ThrowTypes ==
  ASSUME JInv, NEW j \in Jobs, queue[j].state = "active", Throw(j)
  PROVE  /\ Leave(j) /\ UNCHANGED <<txStatus, credited, balance, eventStatus,
                                    related, receiving, payload>>
         /\ queue' \in [Jobs -> [state : JobStates, failures : 0..MaxAttempts,
                                 stalls : 0..MaxStalls]]
         /\ queue'[j].state \in {"waiting", "failed"}
         /\ queue'[j].failures = MaxAttempts => queue'[j].state = "failed"
         /\ \A i \in Jobs \ {j} : queue'[i] = queue[i]
<1>1. queue[j].failures \in 0..MaxAttempts /\ queue[j].failures # MaxAttempts
  BY DEF JInv, JobsAreInOrder, InOrder, TypeOK
<1> QED BY <1>1 DEF JInv, TypeOK, Throw, rows, JobStates, MaxAttempts

LEMMA StopTypes ==
  ASSUME JInv, NEW j \in Jobs, WorkerStops(j)
  PROVE  /\ at[j] # "off" /\ queue[j].state = "active"
         /\ Leave(j) /\ UNCHANGED <<txStatus, credited, balance, eventStatus,
                                    related, receiving, payload>>
         /\ queue' \in [Jobs -> [state : JobStates, failures : 0..MaxAttempts,
                                 stalls : 0..MaxStalls]]
         /\ queue'[j].state \in {"waiting", "failed"}
         /\ queue'[j].failures = MaxAttempts => queue'[j].state = "failed"
         /\ \A i \in Jobs \ {j} : queue'[i] = queue[i]
         /\ faults' \in 0..MaxFaults
<1>1. /\ at[j] # "off" /\ queue[j].state = "active" /\ Leave(j)
      /\ UNCHANGED <<txStatus, credited, balance, eventStatus, related, receiving,
                     payload>>
      /\ faults' \in 0..MaxFaults
  BY MaxFaultsAssumption
  DEF JInv, JobsAreInOrder, InOrder, TypeOK, WorkerStops, CountFault, rows
<1>2. /\ queue \in [Jobs -> [state : JobStates, failures : 0..MaxAttempts,
                             stalls : 0..MaxStalls]]
      /\ queue[j].failures # MaxAttempts
  BY <1>1 DEF JInv, JobsAreInOrder, InOrder, TypeOK, JobStates
<1>3. CASE queue[j].stalls < MaxStalls
  <2> DEFINE again == [state |-> "waiting", failures |-> queue[j].failures,
                       stalls |-> queue[j].stalls + 1]
  <2>1. queue' = [queue EXCEPT ![j] = again]
    BY <1>2, <1>3 DEF WorkerStops
  <2>2. /\ again \in [state : JobStates, failures : 0..MaxAttempts,
                      stalls : 0..MaxStalls]
        /\ again.state = "waiting" /\ again.failures = queue[j].failures
    BY <1>2, <1>3 DEF JobStates, MaxStalls
  <2> HIDE DEF again
  <2> QED BY <1>1, <1>2, <2>1, <2>2
<1>4. CASE ~ (queue[j].stalls < MaxStalls)
  <2>1. queue' = [queue EXCEPT ![j] = [@ EXCEPT !.state = "failed"]]
    BY <1>2, <1>4 DEF WorkerStops
  <2> QED BY <1>1, <1>2, <1>4, <2>1 DEF JobStates, MaxAttempts, MaxStalls
<1> QED BY <1>3, <1>4

(***************************************************************************)
(* An attempt ends without effect: a statement throws, the connection is   *)
(* lost or the worker stops.                                               *)
(***************************************************************************)
GivesUp(j) ==
  /\ at[j] # "off" /\ Leave(j)
  /\ UNCHANGED <<txStatus, credited, balance, eventStatus, related, receiving,
                 payload>>
  /\ queue' \in [Jobs -> [state : JobStates, failures : 0..MaxAttempts,
                          stalls : 0..MaxStalls]]
  /\ queue'[j].state \in {"waiting", "failed"}
  /\ queue'[j].failures = MaxAttempts => queue'[j].state = "failed"
  /\ \A i \in Jobs \ {j} : queue'[i] = queue[i]
  /\ faults' \in 0..MaxFaults

LEMMA GivesUpCases ==
  ASSUME JInv, NEW j \in Jobs
  PROVE  /\ WorkerStops(j) \/ ConnectionLost(j) \/ Catch(j) => GivesUp(j)
         /\ at[j] # "off" /\ Throw(j) /\ UNCHANGED faults => GivesUp(j)
<1>1. WorkerStops(j) => GivesUp(j)
  BY StopTypes DEF GivesUp
<1>2. ASSUME Throw(j), faults' \in 0..MaxFaults, at[j] # "off"
      PROVE  GivesUp(j)
  <2>1. queue[j].state = "active"
    BY <1>2 DEF JInv, JobsAreInOrder, InOrder
  <2> QED BY <1>2, <2>1, ThrowTypes DEF GivesUp
<1>3. ConnectionLost(j) => GivesUp(j)
  BY <1>2, MaxFaultsAssumption
  DEF ConnectionLost, CountFault, JInv, JobsAreInOrder, InOrder, TypeOK
<1>4. Catch(j) => GivesUp(j)
  BY <1>2 DEF Catch, JInv, TypeOK
<1>5. at[j] # "off" /\ Throw(j) /\ UNCHANGED faults => GivesUp(j)
  BY <1>2 DEF JInv, TypeOK
<1> QED BY <1>1, <1>3, <1>4, <1>5

(***************************************************************************)
(* Where the statements that branch go on.                                 *)
(***************************************************************************)
MarksEvent(j) ==
  /\ eventStatus' = [eventStatus EXCEPT ![j.event] = "PROCESSED"]
  /\ related' = IF linking[j] = NoRow THEN related
                ELSE [related EXCEPT ![j.event] = linking[j]]
  /\ txStatus' = [t \in Transactions |->
                    IF owner[t] = Inner(j) THEN CommittedStatus(j) ELSE txStatus[t]]
  /\ balance' = [w \in Wallets |->
                   IF owner[w] = Inner(j) THEN balance[w] + AmountOf[Subject(j)]
                                          ELSE balance[w]]
  /\ credited' = IF linking[j] = j.event THEN credited \cup {j.event} ELSE credited
  /\ owner' = [row \in Rows |-> IF owner[row] = Inner(j) THEN NoRow ELSE owner[row]]
  /\ Goto(j, "return")
  /\ UNCHANGED <<receiving, queue, locals, payload, faults>>

LEMMA BranchCases ==
  ASSUME JInv, NEW j \in Jobs
  PROVE  /\ Reset(j) =>
              /\ at[j] = "reset"
              /\ \/ GivesUp(j)
                 \/ /\ eventStatus[j.event] # "absent"
                    /\ owner' = [owner EXCEPT ![j.event] = Outer(j)]
                    /\ Goto(j, "readEvent")
                    /\ UNCHANGED <<rows, receiving, queue, locals, payload, faults>>
         /\ ReadEvent(j) =>
              /\ at[j] = "readEvent"
              /\ \/ GivesUp(j)
                 \/ /\ eventStatus[j.event] \in {"PROCESSED", "FAILED"}
                    /\ Goto(j, "return")
                    /\ UNCHANGED <<rows, receiving, queue, locals, owner, payload,
                                   faults>>
                 \/ /\ eventStatus[j.event] = "PENDING"
                    /\ Goto(j, Branch[OutcomeOf(j)])
                    /\ UNCHANGED <<rows, receiving, queue, locals, owner, payload,
                                   faults>>
         /\ Mark(j) =>
              /\ at[j] = "mark"
              /\ GivesUp(j) \/ (RelatedTo(j) = {} /\ MarksEvent(j))
<1> USE GivesUpCases
<1>1. eventStatus[j.event] \in {"absent", "PENDING", "PROCESSED", "FAILED"}
  BY JobFields DEF JInv, TypeOK
<1>2. Reset(j) =>
        /\ at[j] = "reset"
        /\ \/ GivesUp(j)
           \/ /\ eventStatus[j.event] # "absent"
              /\ owner' = [owner EXCEPT ![j.event] = Outer(j)]
              /\ Goto(j, "readEvent")
              /\ UNCHANGED <<rows, receiving, queue, locals, payload, faults>>
  BY DEF Reset
<1>3. ASSUME ReadEvent(j)
      PROVE  /\ at[j] = "readEvent"
             /\ \/ GivesUp(j)
                \/ /\ eventStatus[j.event] \in {"PROCESSED", "FAILED"}
                   /\ Goto(j, "return")
                   /\ UNCHANGED <<rows, receiving, queue, locals, owner, payload,
                                  faults>>
                \/ /\ eventStatus[j.event] = "PENDING"
                   /\ Goto(j, Branch[OutcomeOf(j)])
                   /\ UNCHANGED <<rows, receiving, queue, locals, owner, payload,
                                  faults>>
  <2>1. CASE eventStatus[j.event] = "absent"
    BY <1>3, <2>1 DEF ReadEvent
  <2>2. CASE eventStatus[j.event] \in {"PROCESSED", "FAILED"}
    BY <1>3, <2>2 DEF ReadEvent, Goto
  <2>3. CASE eventStatus[j.event] = "PENDING"
    BY <1>3, <2>3 DEF ReadEvent, Goto
  <2> QED BY <1>1, <2>1, <2>2, <2>3
<1>4. ASSUME Mark(j)
      PROVE  /\ at[j] = "mark"
             /\ GivesUp(j) \/ (RelatedTo(j) = {} /\ MarksEvent(j))
  <2>1. CASE RelatedTo(j) = {}
    BY <1>4, <2>1, Zenon DEF Mark, MarksEvent
  <2>2. CASE RelatedTo(j) # {}
    BY <1>4, <2>2 DEF Mark
  <2> QED BY <2>1, <2>2
<1> QED BY <1>2, <1>3, <1>4

-----------------------------------------------------------------------------
(***************************************************************************)
(* In every behaviour: types, and the order of a job's statements.         *)
(***************************************************************************)
LEMMA SubjectOfJob ==
  ASSUME JInv, NEW j \in Jobs
  PROVE  /\ OutcomeOf(j) \in {"rejected", "ignored", "payment", "success", "failed"}
         /\ OutcomeOf(j) \in {"success", "failed"} => Subject(j) \in Transactions
         /\ OutcomeOf(j) = "payment" => Subject(j) \in Payments
         /\ Subject(j) \in Transactions \cup Payments =>
              /\ AmountOf[Subject(j)] \in Nat \ {0}
              /\ WalletOf[Subject(j)] \in Wallets
  BY Outcomes, AmountOfAssumption, WalletOfAssumption DEF OutcomeOf, Subject

LEMMA TypeStep ==
  ASSUME JInv, [Next]_vars
  PROVE  TypeOK'
<1> USE DEF JInv, TypeOK, Goto, rows, locals
<1>1. ASSUME NEW t \in Transactions, CommitWithdrawal(t) PROVE TypeOK'
  <2>1. WalletOf[t] \in Wallets /\ AmountOf[t] \in Int
    BY AmountOfAssumption, WalletOfAssumption
  <2>2. balance' \in [Wallets -> Int]
    BY <1>1, <2>1 DEF CommitWithdrawal
  <2> QED BY <1>1, <2>2 DEF CommitWithdrawal
<1>2. ASSUME NEW e \in Events, Receive(e) \/ AskReplay(e) PROVE TypeOK'
  <2>1. PICK j \in Jobs : AddJob(j)
    BY <1>2, JobFields DEF Receive, AskReplay
  <2>2. queue' \in [Jobs -> [state : {"none", "waiting", "active", "completed", "failed"},
                            failures : 0..MaxAttempts, stalls : 0..MaxStalls]]
    BY <2>1 DEF AddJob
  <2> QED BY <1>2, <2>2 DEF Receive, AskReplay
<1>3. ASSUME NEW e \in Events, StoreEvent(e) \/ LoseEvent(e) PROVE TypeOK'
  BY <1>3, MaxFaultsAssumption DEF StoreEvent, LoseEvent, CountFault
<1>4. ASSUME NEW j \in Jobs, GivesUp(j) PROVE TypeOK'
  BY <1>4, LeaveTypes DEF GivesUp, JobStates
<1>5. ASSUME NEW j \in Jobs, Take(j) PROVE TypeOK'
  BY <1>5 DEF Take
<1>6. ASSUME NEW j \in Jobs, Reset(j), ~ GivesUp(j) PROVE TypeOK'
  <2>1. /\ j.event \in Rows /\ Outer(j) \in Owners
        /\ owner' = [owner EXCEPT ![j.event] = Outer(j)]
        /\ at' = [at EXCEPT ![j] = "readEvent"]
        /\ UNCHANGED <<rows, receiving, queue, locals, payload, faults>>
    BY <1>6, BranchCases, JobFields, Connections DEF Rows
  <2>2. owner' \in [Rows -> Owners]
    BY <2>1
  <2> QED BY <2>1, <2>2
<1>7. ASSUME NEW j \in Jobs, ReadEvent(j), ~ GivesUp(j) PROVE TypeOK'
  BY <1>7, BranchCases, SubjectOfJob, Branches
<1>8. ASSUME NEW j \in Jobs, ReadTransaction(j) PROVE TypeOK'
  <2>1. Subject(j) \in Transactions
    BY <1>8, SubjectOfJob DEF ReadTransaction, JobsAreInOrder, InOrder
  <2> QED BY <1>8, <2>1 DEF ReadTransaction
<1>9. ASSUME NEW j \in Jobs, UpdateStatus(j) PROVE TypeOK'
  BY <1>9, Connections DEF UpdateStatus, Lock
<1>10. ASSUME NEW j \in Jobs, Refund(j) PROVE TypeOK'
  BY <1>10, Connections DEF Refund, Lock
<1>11. ASSUME NEW j \in Jobs, ReadPayment(j) PROVE TypeOK'
  BY <1>11 DEF ReadPayment, ExistingRows
<1>12. ASSUME NEW j \in Jobs, Credit(j) PROVE TypeOK'
  BY <1>12, Connections, JobFields DEF Credit, Lock
<1>13. ASSUME NEW j \in Jobs, Mark(j), ~ GivesUp(j) PROVE TypeOK'
  <2> MarksEvent(j)
    BY <1>13, BranchCases
  <2>1. /\ related' \in [Events -> Transactions \cup Events \cup {NoRow}]
        /\ eventStatus' \in [Events -> {"absent", "PENDING", "PROCESSED", "FAILED"}]
        /\ credited' \subseteq Events /\ owner' \in [Rows -> Owners]
    <3>1. related' \in [Events -> Transactions \cup Events \cup {NoRow}]
      BY JobFields DEF MarksEvent
    <3>2. /\ eventStatus' \in [Events -> {"absent", "PENDING", "PROCESSED", "FAILED"}]
          /\ credited' \subseteq Events
      BY JobFields DEF MarksEvent
    <3>3. owner' \in [Rows -> Owners]
      BY DEF MarksEvent, Owners
    <3> QED BY <3>1, <3>2, <3>3
  <2>2. txStatus' \in [Transactions ->
                         {"absent", "PENDING", "SUCCESS", "FAILED", "REVERSED"}]
    BY DEF MarksEvent, CommittedStatus
  <2>3. balance' \in [Wallets -> Int]
    <3>1. ASSUME NEW w \in Wallets, owner[w] = Inner(j)
          PROVE  AmountOf[Subject(j)] \in Int
      <4>1. OutcomeOf(j) \in {"success", "failed", "payment"}
        BY <3>1 DEF JobsAreInOrder, InOrder
      <4> QED BY <4>1, SubjectOfJob
    <3> QED BY <3>1 DEF MarksEvent
  <2> QED BY <2>1, <2>2, <2>3 DEF MarksEvent
<1>14. ASSUME NEW j \in Jobs, Return(j) PROVE TypeOK'
  <2>1. /\ eventStatus' \in [Events -> {"absent", "PENDING", "PROCESSED", "FAILED"}]
        /\ related' \in [Events -> Transactions \cup Events \cup {NoRow}]
    BY <1>14, JobFields DEF Return
  <2>2. queue' \in [Jobs -> [state : {"none", "waiting", "active", "completed", "failed"},
                            failures : 0..MaxAttempts, stalls : 0..MaxStalls]]
    BY <1>14 DEF Return
  <2> QED BY <1>14, <2>1, <2>2, LeaveTypes DEF Return
<1>15. CASE UNCHANGED vars
  BY <1>15 DEF vars
<1> QED
  BY <1>1, <1>2, <1>3, <1>4, <1>5, <1>6, <1>7, <1>8, <1>9, <1>10, <1>11, <1>12,
     <1>13, <1>14, <1>15, GivesUpCases DEF Next, Work, Quiet

LEMMA SameReports ==
  ASSUME payload' = payload
  PROVE  \A j : OutcomeOf(j)' = OutcomeOf(j) /\ Subject(j)' = Subject(j)
  BY DEF OutcomeOf, Subject

(***************************************************************************)
(* What the end of an attempt leaves of the locks.                         *)
(***************************************************************************)
LEMMA LeaveLocks ==
  ASSUME NEW j \in Jobs, Leave(j)
  PROVE  \A row \in Rows :
           /\ owner'[row] # Inner(j) /\ owner'[row] # Outer(j)
           /\ owner[row] \in {Inner(j), Outer(j)} => owner'[row] = NoRow
           /\ owner[row] \notin {Inner(j), Outer(j)} => owner'[row] = owner[row]
  BY Connections DEF Leave, Unlocked

LEMMA OrderStep ==
  ASSUME JInv, [Next]_vars
  PROVE  JobsAreInOrder'
<1> SUFFICES ASSUME NEW i \in Jobs
             PROVE  InOrder(i)'
  BY DEF JobsAreInOrder
<1> USE DEF JInv, TypeOK, Goto, rows, locals
<1>0. InOrder(i) /\ \A w \in Wallets : w \in Rows
  BY DEF JobsAreInOrder, Rows
<1> DEFINE SameLocks == \A w \in Wallets : owner'[w] = Inner(i) => owner[w] = Inner(i)
<1>1. ASSUME NEW t \in Transactions, CommitWithdrawal(t) PROVE InOrder(i)'
  BY <1>0, <1>1, SameReports DEF CommitWithdrawal, InOrder
<1>2. ASSUME NEW j \in Jobs, AddJob(j), queue[j].state = "none",
             UNCHANGED <<at, locals, owner, payload>>
      PROVE  InOrder(i)'
  <2>1. queue[j].failures # MaxAttempts /\ at[j] = "off"
    BY <1>2 DEF JobsAreInOrder, InOrder
  <2> QED BY <1>0, <1>2, <2>1, SameReports DEF AddJob, InOrder
<1>3. ASSUME NEW e \in Events, StoreEvent(e) \/ LoseEvent(e) PROVE InOrder(i)'
  BY <1>0, <1>3, SameReports DEF StoreEvent, LoseEvent, InOrder
<1>4. ASSUME NEW j \in Jobs, GivesUp(j) PROVE InOrder(i)'
  <2>1. SameLocks
    BY <1>0, <1>4, LeaveLocks, Connections DEF GivesUp
  <2>2. CASE i = j
    BY <1>0, <1>4, <2>1, <2>2, LeaveTypes, LeaveLocks, SameReports DEF GivesUp, InOrder
  <2>3. CASE i # j
    BY <1>0, <1>4, <2>1, <2>3, LeaveTypes, SameReports DEF GivesUp, InOrder
  <2> QED BY <2>2, <2>3
<1>5. ASSUME NEW j \in Jobs, Take(j) PROVE InOrder(i)'
  <2>1. queue[j].failures # MaxAttempts
    BY <1>5 DEF JobsAreInOrder, InOrder, Take
  <2> QED BY <1>0, <1>5, <2>1, SameReports DEF Take, InOrder
<1>6. ASSUME NEW j \in Jobs, Reset(j), ~ GivesUp(j) PROVE InOrder(i)'
  <2>1. /\ owner' = [owner EXCEPT ![j.event] = Outer(j)]
        /\ at[j] = "reset" /\ at' = [at EXCEPT ![j] = "readEvent"]
        /\ UNCHANGED <<rows, receiving, queue, locals, payload, faults>>
    BY <1>6, BranchCases
  <2>2. SameLocks
    BY <1>0, <2>1, Connections
  <2> QED BY <1>0, <2>1, <2>2, SameReports DEF InOrder
<1>7. ASSUME NEW j \in Jobs, ReadEvent(j), ~ GivesUp(j) PROVE InOrder(i)'
  <2>1. /\ at[j] = "readEvent" /\ UNCHANGED <<queue, owner, payload>>
        /\ \/ at' = [at EXCEPT ![j] = "return"]
           \/ at' = [at EXCEPT ![j] = Branch[OutcomeOf(j)]]
    BY <1>7, BranchCases
  <2> QED BY <1>0, <2>1, SubjectOfJob, Branches, SameReports DEF InOrder
<1>8. ASSUME NEW j \in Jobs, ReadTransaction(j) PROVE InOrder(i)'
  BY <1>0, <1>8, SameReports DEF ReadTransaction, InOrder
<1>9. ASSUME NEW j \in Jobs, UpdateStatus(j) PROVE InOrder(i)'
  <2>1. /\ at[j] = "updateStatus" /\ UNCHANGED <<queue, payload>>
        /\ owner' = [owner EXCEPT ![Subject(j)] = Inner(j)]
        /\ at' = [at EXCEPT ![j] = "refund"] \/ at' = [at EXCEPT ![j] = "mark"]
        /\ Subject(j) \notin Wallets
    BY <1>9, SubjectOfJob, IdsAssumption DEF UpdateStatus, Lock, JobsAreInOrder, InOrder
  <2>2. SameLocks
    BY <1>0, <2>1
  <2> QED BY <1>0, <2>1, <2>2, SameReports DEF InOrder
<1>10. ASSUME NEW j \in Jobs, Refund(j) \/ Credit(j) PROVE InOrder(i)'
  <2>1. /\ at[j] \in {"refund", "credit"} /\ UNCHANGED <<queue, payload>>
        /\ owner' = [owner EXCEPT ![WalletOf[Subject(j)]] = Inner(j)]
        /\ at' = [at EXCEPT ![j] = "mark"]
    BY <1>10 DEF Refund, Credit, Lock
  <2>2. i # j => SameLocks
    BY <1>0, <2>1, Connections
  <2> QED BY <1>0, <2>1, <2>2, SameReports DEF InOrder
<1>11. ASSUME NEW j \in Jobs, ReadPayment(j) PROVE InOrder(i)'
  BY <1>0, <1>11, SameReports DEF ReadPayment, InOrder
<1>12. ASSUME NEW j \in Jobs, Mark(j), ~ GivesUp(j) PROVE InOrder(i)'
  <2>1. /\ at[j] = "mark" /\ UNCHANGED <<queue, payload>>
        /\ owner' = [row \in Rows |-> IF owner[row] = Inner(j) THEN NoRow ELSE owner[row]]
        /\ at' = [at EXCEPT ![j] = "return"]
    BY <1>12, BranchCases DEF MarksEvent
  <2>2. SameLocks
    BY <1>0, <2>1, Connections
  <2> QED BY <1>0, <2>1, <2>2, SameReports DEF InOrder
<1>13. ASSUME NEW j \in Jobs, Return(j) PROVE InOrder(i)'
  <2>1. /\ Leave(j) /\ payload' = payload /\ at[j] = "return"
        /\ queue' = [queue EXCEPT ![j].state = "completed"]
    BY <1>13 DEF Return
  <2>2. queue[j].failures # MaxAttempts
    BY <2>1 DEF JobsAreInOrder, InOrder
  <2>3. SameLocks
    BY <1>0, <2>1, LeaveLocks, Connections
  <2> QED BY <1>0, <2>1, <2>2, <2>3, LeaveTypes, SameReports DEF InOrder
<1>14. CASE UNCHANGED vars
  BY <1>0, <1>14, SameReports DEF vars, InOrder
<1>15. ASSUME NEW e \in Events, Receive(e) \/ AskReplay(e) PROVE InOrder(i)'
  BY <1>2, <1>15, JobFields DEF Receive, AskReplay
<1> QED
  BY <1>1, <1>3, <1>4, <1>5, <1>6, <1>7, <1>8, <1>9, <1>10, <1>11, <1>12,
     <1>13, <1>14, <1>15, GivesUpCases DEF Next, Work, Quiet

LEMMA JobInit == Init => JInv
<1> SUFFICES ASSUME Init PROVE JInv
  OBVIOUS
<1>1. TypeOK
  BY InitialStatusAssumption, InitialBalanceAssumption, MaxFaultsAssumption
  DEF Init, TypeOK, Owners, MaxAttempts, MaxStalls
<1>2. JobsAreInOrder
  BY Connections DEF Init, JobsAreInOrder, InOrder, Rows, MaxAttempts
<1> QED BY <1>1, <1>2 DEF JInv

(***************************************************************************)
(* Types, and the order of the statements of every job: whatever is        *)
(* reported, replayed, lost or repeated (webhooks.service.ts, the queue    *)
(* and its processor).                                                     *)
(***************************************************************************)
THEOREM JobInvariance == Spec => []JInv
<1>1. JInv /\ [Next]_vars => JInv'
  BY TypeStep, OrderStep DEF JInv
<1> QED BY <1>1, JobInit, PTL DEF Spec

(***************************************************************************)
(* Every variable keeps its type; a job is never tried more often than     *)
(* addWebhookProcessingJob allows.                                         *)
(***************************************************************************)
THEOREM WebhookTypes == Spec => []TypeOK
<1>1. JInv => TypeOK
  BY DEF JInv
<1> QED BY <1>1, JobInvariance, PTL

-----------------------------------------------------------------------------
(***************************************************************************)
(* While nothing is replayed, and only a withdrawal is reported as failed, *)
(* every step is one of these.                                             *)
(***************************************************************************)
SkipsEvent(j) ==
  /\ at[j] = "readEvent" /\ eventStatus[j.event] = "PROCESSED"
  /\ Goto(j, "return")
  /\ UNCHANGED <<rows, receiving, queue, locals, owner, payload, faults>>

HandlesEvent(j) ==
  /\ at[j] = "readEvent" /\ eventStatus[j.event] = "PENDING"
  /\ Goto(j, Branch[OutcomeOf(j)])
  /\ UNCHANGED <<rows, receiving, queue, locals, owner, payload, faults>>

SettlesEvent(j) == at[j] = "mark" /\ RelatedTo(j) = {} /\ MarksEvent(j)

Completes(j) ==
  /\ at[j] = "return" /\ eventStatus[j.event] = "PROCESSED"
  /\ Leave(j)
  /\ queue' = [queue EXCEPT ![j].state = "completed"]
  /\ UNCHANGED <<rows, receiving, payload, faults>>

JobStep(j) ==
  \/ GivesUp(j)
  \/ Take(j) /\ at' = [at EXCEPT ![j] = "readEvent"]
  \/ SkipsEvent(j)
  \/ HandlesEvent(j)
  \/ ReadTransaction(j)
  \/ UpdateStatus(j)
  \/ Refund(j)
  \/ ReadPayment(j)
  \/ Credit(j)
  \/ SettlesEvent(j)
  \/ Completes(j)

LEMMA JobsAreProcesses ==
  ASSUME JInv, EventsAreProcessedOnce, NEW j \in Jobs,
         at[j] # "off" \/ queue[j].state # "none"
  PROVE  j.kind = "process" /\ j = Process(j.event)
<1>1. queue[j].state # "none"
  BY DEF JInv, JobsAreInOrder, InOrder
<1> QED BY <1>1, JobFields DEF EventsAreProcessedOnce

LEMMA OnlyInnerLocks ==
  ASSUME LocksAreNeeded, NEW row \in Rows, NEW j \in Jobs
  PROVE  /\ owner[row] # Outer(j)
         /\ owner[row] = Inner(j) => Needs(j, row) /\ at[j] \in {"refund", "mark"}
<1>1. owner[row] # NoRow =>
        \E i \in Jobs : owner[row] = Inner(i) /\ Needs(i, row)
  BY DEF LocksAreNeeded
<1>2. owner[row] = Inner(j) => Needs(j, row)
  BY <1>1, Connections
<1> QED BY <1>1, <1>2, Connections DEF Needs

LEMMA SettlementSteps ==
  ASSUME SettlementConditions, SInv, [Next]_vars
  PROVE  \/ \E t \in Transactions : CommitWithdrawal(t)
         \/ \E e \in Events : Receive(e) \/ StoreEvent(e) \/ LoseEvent(e)
         \/ \E j \in Jobs : j = Process(j.event) /\ JobStep(j)
         \/ UNCHANGED vars
<1> USE DEF SInv
<1>1. ASSUME NEW e \in Events PROVE ~ AskReplay(e)
  BY DEF SettlementConditions, AskReplay
<1>2. ASSUME NEW j \in Jobs, Work(j) \/ ConnectionLost(j) \/ WorkerStops(j)
      PROVE  j = Process(j.event) /\ JobStep(j)
  <2>1. at[j] # "off" \/ queue[j].state # "none"
    BY <1>2, GivesUpCases
    DEF Work, Take, Reset, ReadEvent, ReadTransaction, UpdateStatus, Refund,
        ReadPayment, Credit, Mark, Return, GivesUp
  <2>2. j.kind = "process" /\ j = Process(j.event)
    BY <2>1, JobsAreProcesses
  <2>3. CASE WorkerStops(j) \/ ConnectionLost(j) \/ Catch(j)
    BY <2>2, <2>3, GivesUpCases DEF JobStep
  <2>4. CASE Take(j)
    BY <2>2, <2>4 DEF JobStep, Take, Goto
  <2>5. CASE Reset(j)
    BY <2>5 DEF Reset, EventsAreProcessedOnce
  <2>6. CASE ReadEvent(j)
    <3>1. eventStatus[j.event] # "FAILED"
      BY JobFields DEF EventsAreProcessedOnce
    <3> QED BY <2>2, <2>6, <3>1, BranchCases DEF JobStep, SkipsEvent, HandlesEvent
  <2>7. CASE Mark(j)
    BY <2>2, <2>7, BranchCases DEF JobStep, SettlesEvent
  <2>8. CASE Return(j)
    <3>1. /\ j.event \in Events /\ j.event \in Rows
          /\ eventStatus[j.event] = "PROCESSED"
      BY <2>8, JobFields DEF Return, EventsAreProcessedOnce, Rows
    <3>2. owner[j.event] # Outer(j)
      BY <3>1, OnlyInnerLocks
    <3> QED BY <2>2, <2>8, <3>1, <3>2 DEF JobStep, Completes, Return, rows
  <2> QED BY <1>2, <2>2, <2>3, <2>4, <2>5, <2>6, <2>7, <2>8 DEF Work, JobStep
<1> QED BY <1>1, <1>2 DEF Next, Quiet

(***************************************************************************)
(* What a job that may mark its event has locked is a withdrawal that was, *)
(* and is, PENDING: had it been settled, the event that did it would keep  *)
(* the unique column.                                                      *)
(***************************************************************************)
LEMMA PendingUntilMarked ==
  ASSUME SInv, NEW j \in Jobs, at[j] = "mark", RelatedTo(j) = {},
         NEW t \in Transactions, owner[t] = Inner(j)
  PROVE  /\ Settles(j) /\ t = Subject(j) /\ linking[j] = t
         /\ TypeOf[t] = "WITHDRAWAL" /\ txStatus[t] = "PENDING"
         /\ CommittedStatus(j) = IF OutcomeOf(j) = "success" THEN "SUCCESS" ELSE "REVERSED"
         /\ OutcomeOf(j) = "failed" => NeedsRefund(j)
<1> USE DEF SInv, JInv
<1>1. Needs(j, t)
  BY OnlyInnerLocks DEF Rows
<1>2. Settles(j) /\ t = Subject(j)
  <2>1. Settles(j) \/ OutcomeOf(j) = "payment"
    BY <1>1 DEF Needs
  <2>2. WalletOf[Subject(j)] \notin Transactions
    BY <2>1, SubjectOfJob, IdsAssumption DEF Settles
  <2> QED BY <1>1, <2>2 DEF Needs
<1>3. /\ linking[j] = t /\ txStatus[t] # "absent" /\ TypeOf[t] = "WITHDRAWAL"
      /\ seen[j] = "PENDING" \/ txStatus[t] # "PENDING"
  BY <1>2 DEF SettledByAnEvent, HasRead
<1>4. txStatus[t] = "PENDING"
  <2> SUFFICES ASSUME txStatus[t] # "PENDING" PROVE FALSE
    OBVIOUS
  <2>1. txStatus[t] \in {"SUCCESS", "REVERSED"}
    BY <1>3 DEF SettledByAnEvent, SettledBySomeEvent, TypeOK
  <2>2. PICK e \in Events : related[e] = t
    BY <1>3, <2>1 DEF SettledByAnEvent, SettledBySomeEvent
  <2>3. t # NoRow
    BY IdsAssumption
  <2>4. e = j.event
    BY <1>3, <2>2, <2>3 DEF RelatedTo
  <2>5. eventStatus[e] = "PENDING"
    BY <2>4 DEF EventsAreProcessedOnce
  <2> QED BY <2>2, <2>3, <2>5 DEF EventsAreProcessedOnce
<1> QED BY <1>2, <1>3, <1>4 DEF CommittedStatus, NeedsRefund, Settles

(***************************************************************************)
(* What SettlesEvent changes, row by row.                                  *)
(***************************************************************************)
LEMMA MarkEffects ==
  ASSUME SInv, NEW j \in Jobs, SettlesEvent(j)
  PROVE  /\ at[j] = "mark" /\ eventStatus[j.event] = "PENDING"
         /\ related[j.event] = NoRow /\ j.event \notin credited
         /\ eventStatus'[j.event] = "PROCESSED" /\ at'[j] = "return"
         /\ \A e \in Events \ {j.event} :
              /\ eventStatus'[e] = eventStatus[e] /\ related'[e] = related[e]
              /\ e \in credited' <=> e \in credited
         /\ credited \subseteq credited'
         /\ j.event \in credited' <=> linking[j] = j.event
         /\ related'[j.event] = linking[j]
         /\ \A i \in Jobs \ {j} : at'[i] = at[i]
         /\ \A t \in Transactions :
              IF owner[t] = Inner(j)
                THEN /\ t = Subject(j) /\ linking[j] = t /\ txStatus[t] = "PENDING"
                     /\ TypeOf[t] = "WITHDRAWAL"
                     /\ txStatus'[t] = IF OutcomeOf(j) = "success" THEN "SUCCESS"
                                                                   ELSE "REVERSED"
                ELSE txStatus'[t] = txStatus[t]
         /\ \A row \in Rows :
              /\ owner[row] = Inner(j) => owner'[row] = NoRow
              /\ owner[row] # Inner(j) => owner'[row] = owner[row]
         /\ UNCHANGED <<receiving, queue, seen, linking, payload, faults>>
<1> USE DEF SInv, JInv, SettlesEvent, MarksEvent, Goto, locals
<1>1. /\ at[j] = "mark" /\ j.event \in Events /\ eventStatus[j.event] = "PENDING"
      /\ related[j.event] = NoRow /\ j.event \notin credited
  BY JobFields DEF EventsAreProcessedOnce
<1>2. /\ eventStatus'[j.event] = "PROCESSED" /\ at'[j] = "return"
      /\ \A i \in Jobs \ {j} : at'[i] = at[i]
      /\ \A e \in Events \ {j.event} : eventStatus'[e] = eventStatus[e]
      /\ UNCHANGED <<receiving, queue, seen, linking, payload, faults>>
  BY <1>1 DEF TypeOK
<1>3. /\ related'[j.event] = linking[j]
      /\ \A e \in Events \ {j.event} : related'[e] = related[e]
  BY <1>1 DEF TypeOK
<1>4. /\ \A e \in Events \ {j.event} : e \in credited' <=> e \in credited
      /\ credited \subseteq credited'
      /\ j.event \in credited' <=> linking[j] = j.event
  BY <1>1
<1>5. ASSUME NEW t \in Transactions
      PROVE  IF owner[t] = Inner(j)
               THEN /\ t = Subject(j) /\ linking[j] = t /\ txStatus[t] = "PENDING"
                    /\ TypeOf[t] = "WITHDRAWAL"
                    /\ txStatus'[t] = IF OutcomeOf(j) = "success" THEN "SUCCESS"
                                                                  ELSE "REVERSED"
               ELSE txStatus'[t] = txStatus[t]
  BY <1>1, PendingUntilMarked
<1>6. \A row \in Rows :
        /\ owner[row] = Inner(j) => owner'[row] = NoRow
        /\ owner[row] # Inner(j) => owner'[row] = owner[row]
  BY DEF TypeOK
<1> QED BY <1>1, <1>2, <1>3, <1>4, <1>5, <1>6

LEMMA ProcessedOnceStep ==
  ASSUME SettlementConditions, SInv, [Next]_vars
  PROVE  EventsAreProcessedOnce'
<1> USE DEF SInv, JInv, Goto, rows, locals
<1>0. EventsAreProcessedOnce /\ TypeOK /\ JobsAreInOrder
  OBVIOUS
<1>1. ASSUME NEW t \in Transactions, CommitWithdrawal(t) PROVE EventsAreProcessedOnce'
  BY <1>0, <1>1 DEF CommitWithdrawal, EventsAreProcessedOnce
<1>2. ASSUME NEW e \in Events, Receive(e) PROVE EventsAreProcessedOnce'
  BY <1>0, <1>2, JobFields DEF Receive, AddJob, EventsAreProcessedOnce, TypeOK
<1>3. ASSUME NEW e \in Events, StoreEvent(e) PROVE EventsAreProcessedOnce'
  BY <1>0, <1>3, JobFields DEF StoreEvent, EventsAreProcessedOnce, TypeOK
<1>4. ASSUME NEW e \in Events, LoseEvent(e) PROVE EventsAreProcessedOnce'
  BY <1>0, <1>4 DEF LoseEvent, EventsAreProcessedOnce
<1>5. ASSUME NEW j \in Jobs, j = Process(j.event), GivesUp(j)
      PROVE  EventsAreProcessedOnce'
  <2>1. /\ UNCHANGED <<credited, eventStatus, related, receiving>>
        /\ at'[j] = "off" /\ \A i \in Jobs \ {j} : at'[i] = at[i]
        /\ queue'[j].state \in {"waiting", "failed"}
        /\ \A i \in Jobs \ {j} : queue'[i] = queue[i]
        /\ j.kind = "process"
    BY <1>0, <1>5, LeaveTypes, JobFields DEF GivesUp
  <2>2. \A i \in Jobs : i.kind = "replay" => queue'[i].state = "none"
    BY <2>1 DEF EventsAreProcessedOnce
  <2>3. \A e \in Events :
          /\ queue[Process(e)].state # "none" => queue'[Process(e)].state # "none"
          /\ queue'[Process(e)].state = "completed" => queue[Process(e)].state = "completed"
    BY <2>1, JobFields
  <2>4. \A i \in Jobs : at'[i] \in {at[i], "off"}
    BY <2>1
  <2> HIDE DEF SInv
  <2> QED BY <1>0, <2>1, <2>2, <2>3, <2>4 DEF EventsAreProcessedOnce
<1>6. ASSUME NEW j \in Jobs, j = Process(j.event), Take(j),
             at' = [at EXCEPT ![j] = "readEvent"]
      PROVE  EventsAreProcessedOnce'
  BY <1>0, <1>6, JobFields DEF Take, EventsAreProcessedOnce, TypeOK
<1>7. ASSUME NEW j \in Jobs, j = Process(j.event), SkipsEvent(j)
      PROVE  EventsAreProcessedOnce'
  BY <1>0, <1>7 DEF SkipsEvent, EventsAreProcessedOnce, TypeOK
<1>8. ASSUME NEW j \in Jobs, j = Process(j.event), HandlesEvent(j)
      PROVE  EventsAreProcessedOnce'
  BY <1>0, <1>8, SubjectOfJob, Branches DEF HandlesEvent, EventsAreProcessedOnce, TypeOK
<1>9. ASSUME NEW j \in Jobs, ReadTransaction(j)
      PROVE  EventsAreProcessedOnce'
  BY <1>0, <1>9 DEF ReadTransaction, EventsAreProcessedOnce, TypeOK
<1>10. ASSUME NEW j \in Jobs,
              UpdateStatus(j) \/ Refund(j) \/ ReadPayment(j) \/ Credit(j)
       PROVE  EventsAreProcessedOnce'
  BY <1>0, <1>10
  DEF UpdateStatus, Refund, ReadPayment, Credit, EventsAreProcessedOnce, TypeOK
<1>11. ASSUME NEW j \in Jobs, j = Process(j.event), SettlesEvent(j)
       PROVE  EventsAreProcessedOnce'
  <2>1. /\ \A i \in Jobs : i.kind = "replay" => queue'[i].state = "none"
        /\ \A e \in Events :
             /\ eventStatus'[e] # "FAILED"
             /\ e \in receiving' => eventStatus'[e] = "absent"
             /\ eventStatus'[e] # "absent" \/ e \in receiving' =>
                  queue'[Process(e)].state # "none"
             /\ eventStatus'[e] # "PROCESSED" => related'[e] = NoRow /\ e \notin credited'
             /\ queue'[Process(e)].state = "completed" => eventStatus'[e] = "PROCESSED"
    BY <1>0, <1>11, MarkEffects DEF EventsAreProcessedOnce
  <2>2. ASSUME NEW i \in Jobs, i # j, at[i] # "off"
        PROVE  i.event # j.event /\ i.event \in Events
    BY <1>0, <1>11, <2>2, JobsAreProcesses, JobFields
  <2>3. ASSUME NEW i \in Jobs
        PROVE  /\ at'[i] \in {"readTransaction", "updateStatus", "refund",
                              "readPayment", "credit", "mark"} =>
                    eventStatus'[i.event] = "PENDING"
               /\ at'[i] = "return" => eventStatus'[i.event] = "PROCESSED"
               /\ at'[i] # "reset"
    BY <1>0, <1>11, <2>2, MarkEffects DEF EventsAreProcessedOnce
  <2> QED BY <2>1, <2>3 DEF EventsAreProcessedOnce
<1>12. ASSUME NEW j \in Jobs, j = Process(j.event), Completes(j)
       PROVE  EventsAreProcessedOnce'
  BY <1>0, <1>12, LeaveTypes, JobFields DEF Completes, EventsAreProcessedOnce, TypeOK
<1>13. CASE UNCHANGED vars
  BY <1>0, <1>13 DEF vars, EventsAreProcessedOnce
<1> QED
  BY <1>1, <1>2, <1>3, <1>4, <1>5, <1>6, <1>7, <1>8, <1>9, <1>10, <1>11, <1>12,
     <1>13, SettlementSteps DEF JobStep

(***************************************************************************)
(* How a status changes, and that what is settled or credited stays so.    *)
(***************************************************************************)
LEMMA StatusChanges ==
  ASSUME SettlementConditions, SInv, [Next]_vars
  PROVE  /\ \A t \in Transactions :
              \/ txStatus'[t] = txStatus[t]
              \/ txStatus[t] = "absent" /\ txStatus'[t] = "PENDING"
              \/ txStatus[t] = "PENDING" /\ txStatus'[t] \in {"SUCCESS", "REVERSED"}
         /\ credited \subseteq credited'
         /\ payload' = payload
<1> USE DEF SInv, JInv, TypeOK, rows
<1>1. CASE \E t \in Transactions : CommitWithdrawal(t)
  BY <1>1 DEF CommitWithdrawal
<1>2. CASE \E e \in Events : Receive(e) \/ StoreEvent(e) \/ LoseEvent(e)
  BY <1>2 DEF Receive, StoreEvent, LoseEvent
<1>3. ASSUME NEW j \in Jobs, JobStep(j)
      PROVE  \/ UNCHANGED <<txStatus, credited, payload>>
             \/ SettlesEvent(j)
  BY <1>3
  DEF JobStep, GivesUp, Take, SkipsEvent, HandlesEvent, ReadTransaction, UpdateStatus,
      Refund, ReadPayment, Credit, Completes
<1>4. CASE UNCHANGED vars
  BY <1>4 DEF vars
<1> QED BY <1>1, <1>2, <1>3, <1>4, SettlementSteps, MarkEffects

(***************************************************************************)
(* A step of one job leaves the others where they are, with their locks.   *)
(***************************************************************************)
Rests(i) ==
  /\ at'[i] = at[i] /\ seen'[i] = seen[i] /\ linking'[i] = linking[i]
  /\ \A row \in Rows : owner'[row] = Inner(i) <=> owner[row] = Inner(i)

LEMMA OthersRest ==
  ASSUME SInv, NEW j \in Jobs, JobStep(j), NEW i \in Jobs, i # j
  PROVE  Rests(i)
<1> USE DEF SInv, JInv, TypeOK, Goto, rows, locals
<1>1. CASE GivesUp(j) \/ Completes(j)
  BY <1>1, LeaveTypes, LeaveLocks, Connections DEF GivesUp, Completes, Rests
<1>2. CASE Take(j) \/ SkipsEvent(j) \/ HandlesEvent(j) \/ ReadTransaction(j)
           \/ ReadPayment(j)
  BY <1>2 DEF Take, SkipsEvent, HandlesEvent, ReadTransaction, ReadPayment, Rests
<1>3. CASE UpdateStatus(j) \/ Refund(j) \/ Credit(j)
  <2>1. PICK row \in {Subject(j), WalletOf[Subject(j)]} :
          owner[row] = NoRow /\ owner' = [owner EXCEPT ![row] = Inner(j)]
    BY <1>3 DEF UpdateStatus, Refund, Credit, IsFree, Lock
  <2>2. \A x \in Rows : owner'[x] = Inner(i) <=> owner[x] = Inner(i)
    BY <2>1, Connections
  <2>3. at'[i] = at[i] /\ seen'[i] = seen[i] /\ linking'[i] = linking[i]
    BY <1>3 DEF UpdateStatus, Refund, Credit
  <2> QED BY <2>2, <2>3 DEF Rests
<1>4. CASE SettlesEvent(j)
  BY <1>4, MarkEffects, Connections DEF Rests
<1> QED BY <1>1, <1>2, <1>3, <1>4 DEF JobStep

LEMMA Resting ==
  ASSUME SettlementConditions, SInv, [Next]_vars
  PROVE  \/ (\A i \in Jobs : Rests(i)) /\ UNCHANGED owner
         \/ \E j \in Jobs : /\ j = Process(j.event) /\ JobStep(j)
                            /\ \A i \in Jobs \ {j} : Rests(i)
<1>1. CASE \E t \in Transactions : CommitWithdrawal(t)
  BY <1>1 DEF CommitWithdrawal, Rests, locals
<1>2. CASE \E e \in Events : Receive(e) \/ StoreEvent(e) \/ LoseEvent(e)
  BY <1>2 DEF Receive, StoreEvent, LoseEvent, Rests, locals
<1>3. CASE UNCHANGED vars
  BY <1>3 DEF vars, Rests
<1> QED BY <1>1, <1>2, <1>3, SettlementSteps, OthersRest

LEMMA RestingJobs ==
  ASSUME SettlementConditions, SInv, [Next]_vars, NEW i \in Jobs, Rests(i)
  PROVE  /\ HoldsItsLocks(i)' /\ HasRead(i)'
         /\ \A row \in Rows : owner[row] = Inner(i) =>
              owner'[row] = Inner(i) /\ Needs(i, row)'
<1> USE DEF SInv, JInv, Rests, Settles
<1>1. /\ OutcomeOf(i)' = OutcomeOf(i) /\ Subject(i)' = Subject(i)
      /\ Settles(i)' = Settles(i) /\ NeedsRefund(i)' = NeedsRefund(i)
  BY StatusChanges, SameReports DEF NeedsRefund
<1>2. /\ Settles(i) => Subject(i) \in Transactions /\ Subject(i) \in Rows
      /\ Settles(i) \/ OutcomeOf(i) = "payment" => WalletOf[Subject(i)] \in Rows
  BY SubjectOfJob DEF Rows
<1>3. HoldsItsLocks(i)'
  <2>1. AlreadySettled(i) /\ Settles(i) => AlreadySettled(i)'
    BY <1>1, <1>2, StatusChanges DEF AlreadySettled
  <2>2. HoldsItsLocks(i)
    BY DEF LocksAreHeld
  <2>3. at[i] = "refund" => Settles(i)
    BY DEF JobsAreInOrder, InOrder
  <2> QED BY <1>1, <1>2, <2>1, <2>2, <2>3, StatusChanges DEF HoldsItsLocks
<1>4. HasRead(i)'
  <2>1. HasRead(i)
    BY DEF SettledByAnEvent
  <2> QED BY <1>1, <1>2, <2>1, StatusChanges DEF HasRead
<1>5. ASSUME NEW row \in Rows, owner[row] = Inner(i)
      PROVE  owner'[row] = Inner(i) /\ Needs(i, row)'
  <2>1. Needs(i, row)
    BY <1>5, OnlyInnerLocks
  <2> QED BY <1>1, <1>2, <1>5, <2>1 DEF Needs
<1> QED BY <1>3, <1>4, <1>5

(***************************************************************************)
(* The job that steps: its locks, and what it has read.                    *)
(***************************************************************************)
LEMMA SteppingJob ==
  ASSUME SettlementConditions, SInv, [Next]_vars, NEW j \in Jobs,
         j = Process(j.event), JobStep(j)
  PROVE  /\ HoldsItsLocks(j)' /\ HasRead(j)'
         /\ \A row \in Rows : owner'[row] = Inner(j) => Needs(j, row)'
         /\ \A row \in Rows : \/ owner'[row] \in {NoRow, Inner(j)}
                              \/ owner'[row] = owner[row]
<1> USE DEF SInv, JInv, TypeOK, Goto, rows, locals, Settles
<1>1. /\ OutcomeOf(j)' = OutcomeOf(j) /\ Subject(j)' = Subject(j)
      /\ Settles(j)' = Settles(j) /\ payload' = payload
      /\ credited \subseteq credited'
  BY StatusChanges, SameReports
<1>2. /\ Settles(j) => /\ Subject(j) \in Transactions /\ Subject(j) \in Rows
                       /\ Subject(j) \notin Wallets
      /\ Settles(j) \/ OutcomeOf(j) = "payment" =>
           WalletOf[Subject(j)] \in Wallets /\ WalletOf[Subject(j)] \in Rows
      /\ j.event \in Events
  BY SubjectOfJob, IdsAssumption, JobFields DEF Rows
<1>3. /\ HoldsItsLocks(j) /\ HasRead(j) /\ InOrder(j)
      /\ \A row \in Rows : owner[row] = Inner(j) =>
           Needs(j, row) /\ at[j] \in {"refund", "mark"}
  BY OnlyInnerLocks DEF LocksAreHeld, SettledByAnEvent, JobsAreInOrder
<1>4. CASE GivesUp(j) \/ Completes(j)
  <2>1. /\ at'[j] = "off" /\ linking'[j] = NoRow
        /\ \A row \in Rows : /\ owner'[row] # Inner(j)
                             /\ owner'[row] \in {NoRow, owner[row]}
    BY <1>4, LeaveTypes, LeaveLocks DEF GivesUp, Completes
  <2> QED BY <2>1 DEF HoldsItsLocks, HasRead
<1>5. CASE \/ Take(j) /\ at' = [at EXCEPT ![j] = "readEvent"]
           \/ SkipsEvent(j)
           \/ HandlesEvent(j)
  <2>1. /\ at[j] \in {"off", "readEvent"} /\ UNCHANGED <<seen, linking, owner>>
        /\ at' = [at EXCEPT ![j] = at'[j]]
        /\ at'[j] \in {"readEvent", "return", "catch", "readPayment", "readTransaction",
                       "mark"}
        /\ at'[j] = "mark" => OutcomeOf(j) = "ignored"
    BY <1>3, <1>5, SubjectOfJob, Branches
    DEF Take, SkipsEvent, HandlesEvent, InOrder
  <2> QED BY <1>1, <1>3, <2>1 DEF HoldsItsLocks, HasRead
<1>6. CASE ReadTransaction(j)
  <2>1. /\ at[j] = "readTransaction" /\ UNCHANGED <<owner, txStatus>>
        /\ linking'[j] = Subject(j) /\ seen'[j] = txStatus[Subject(j)]
        /\ at'[j] = IF txStatus[Subject(j)] = "absent" THEN "catch"
                    ELSE IF AlreadySettled(j) THEN "mark" ELSE "updateStatus"
        /\ Settles(j) /\ owner[Subject(j)] # Inner(j)
    BY <1>2, <1>3, <1>6 DEF ReadTransaction, InOrder
  <2>2. AlreadySettled(j)' = AlreadySettled(j)
    BY <1>1, <2>1 DEF AlreadySettled
  <2>3. ~ AlreadySettled(j) /\ txStatus[Subject(j)] # "absent" =>
          TypeOf[Subject(j)] = "WITHDRAWAL"
    <3>1. CASE OutcomeOf(j) = "failed"
      BY <1>2, <3>1 DEF SettlementConditions, OutcomeOf, Subject
    <3>2. CASE OutcomeOf(j) = "success"
      BY <1>2, <2>1, <3>2, TypeOfAssumption
      DEF AlreadySettled, SettledByAnEvent, SettledBySomeEvent
    <3> QED BY <2>1, <3>1, <3>2
  <2> QED BY <1>1, <1>2, <1>3, <2>1, <2>2, <2>3 DEF HoldsItsLocks, HasRead
<1>7. CASE UpdateStatus(j)
  <2>1. /\ at[j] = "updateStatus" /\ UNCHANGED <<seen, linking, txStatus>>
        /\ owner' = [owner EXCEPT ![Subject(j)] = Inner(j)]
        /\ at'[j] = IF NeedsRefund(j) THEN "refund" ELSE "mark"
        /\ Settles(j) /\ owner'[Subject(j)] = Inner(j)
    BY <1>2, <1>3, <1>7 DEF UpdateStatus, Lock, InOrder
  <2>2. NeedsRefund(j)' = NeedsRefund(j)
    BY <1>1, <2>1 DEF NeedsRefund
  <2>3. \A row \in Rows : owner'[row] = Inner(j) => row = Subject(j)
    BY <1>3, <2>1
  <2> QED BY <1>1, <1>2, <1>3, <2>1, <2>2, <2>3 DEF HoldsItsLocks, HasRead, Needs
<1>8. CASE Refund(j)
  <2>1. /\ at[j] = "refund" /\ UNCHANGED <<seen, linking, txStatus>>
        /\ owner' = [owner EXCEPT ![WalletOf[Subject(j)]] = Inner(j)]
        /\ at'[j] = "mark" /\ Settles(j) /\ NeedsRefund(j)
        /\ owner'[Subject(j)] = Inner(j) /\ owner'[WalletOf[Subject(j)]] = Inner(j)
    BY <1>2, <1>3, <1>8 DEF Refund, Lock, InOrder, HoldsItsLocks
  <2>2. NeedsRefund(j)' = NeedsRefund(j)
    BY <1>1, <2>1 DEF NeedsRefund
  <2>3. \A row \in Rows : owner'[row] = Inner(j) => row \in {Subject(j), WalletOf[Subject(j)]}
    BY <1>3, <2>1 DEF Needs
  <2> QED BY <1>1, <1>2, <1>3, <2>1, <2>2, <2>3 DEF HoldsItsLocks, HasRead, Needs
<1>9. CASE ReadPayment(j)
  <2>1. /\ at[j] = "readPayment" /\ owner' = owner /\ OutcomeOf(j) = "payment"
        /\ \/ at'[j] = "credit" /\ linking'[j] = linking[j]
           \/ /\ at'[j] = "mark"
              /\ linking'[j] \in credited /\ payload[linking'[j]].subject = Subject(j)
    BY <1>3, <1>9 DEF ReadPayment, ExistingRows, InOrder
  <2> QED BY <1>1, <1>3, <2>1 DEF HoldsItsLocks, HasRead
<1>10. CASE Credit(j)
  <2>1. /\ at[j] = "credit" /\ OutcomeOf(j) = "payment"
        /\ owner' = [owner EXCEPT ![WalletOf[Subject(j)]] = Inner(j)]
        /\ at'[j] = "mark" /\ linking'[j] = j.event
        /\ owner'[WalletOf[Subject(j)]] = Inner(j)
    BY <1>2, <1>3, <1>10 DEF Credit, Lock, InOrder
  <2>2. \A row \in Rows : owner'[row] = Inner(j) => row = WalletOf[Subject(j)]
    BY <1>3, <2>1
  <2> QED BY <1>1, <1>3, <2>1, <2>2 DEF HoldsItsLocks, HasRead, Needs
<1>11. CASE SettlesEvent(j)
  BY <1>11, MarkEffects, Connections DEF HoldsItsLocks, HasRead
<1> QED BY <1>4, <1>5, <1>6, <1>7, <1>8, <1>9, <1>10, <1>11 DEF JobStep

LEMMA LocksStep ==
  ASSUME SettlementConditions, SInv, [Next]_vars
  PROVE  LocksAreNeeded' /\ LocksAreHeld' /\ \A j \in Jobs : HasRead(j)'
<1>1. ASSUME NEW i \in Jobs PROVE HoldsItsLocks(i)' /\ HasRead(i)'
  BY Resting, RestingJobs, SteppingJob
<1>2. ASSUME NEW row \in Rows, owner'[row] # NoRow
      PROVE  \E i \in Jobs : owner'[row] = Inner(i) /\ Needs(i, row)'
  <2>1. owner[row] # NoRow => \E i \in Jobs : owner[row] = Inner(i)
    BY DEF SInv, LocksAreNeeded
  <2>2. CASE (\A i \in Jobs : Rests(i)) /\ UNCHANGED owner
    BY <1>2, <2>1, <2>2, RestingJobs
  <2>3. ASSUME NEW j \in Jobs, j = Process(j.event), JobStep(j),
               \A i \in Jobs \ {j} : Rests(i)
        PROVE  \E i \in Jobs : owner'[row] = Inner(i) /\ Needs(i, row)'
    <3>1. CASE owner'[row] = Inner(j)
      BY <2>3, <3>1, SteppingJob
    <3>2. CASE owner'[row] # Inner(j)
      <4>1. owner'[row] = owner[row]
        BY <1>2, <2>3, <3>2, SteppingJob
      <4>2. PICK i \in Jobs : owner[row] = Inner(i)
        BY <1>2, <2>1, <4>1
      <4> QED BY <2>3, <3>2, <4>1, <4>2, RestingJobs
    <3> QED BY <3>1, <3>2
  <2> QED BY <2>2, <2>3, Resting
<1> QED BY <1>1, <1>2 DEF LocksAreNeeded, LocksAreHeld

(***************************************************************************)
(* A status, an event and a related transaction change together.           *)
(***************************************************************************)
LEMMA EventChanges ==
  ASSUME SettlementConditions, SInv, [Next]_vars
  PROVE  \/ \E j \in Jobs : j = Process(j.event) /\ SettlesEvent(j)
         \/ /\ related' = related
            /\ \A e \in Events : eventStatus'[e] = "PROCESSED" => eventStatus[e] = "PROCESSED"
            /\ \A t \in Transactions :
                 \/ txStatus'[t] = txStatus[t]
                 \/ txStatus[t] = "absent" /\ txStatus'[t] = "PENDING"
<1> USE DEF SInv, JInv, TypeOK, rows
<1>1. CASE \E t \in Transactions : CommitWithdrawal(t)
  BY <1>1 DEF CommitWithdrawal
<1>2. CASE \E e \in Events : Receive(e) \/ StoreEvent(e) \/ LoseEvent(e)
  BY <1>2 DEF Receive, StoreEvent, LoseEvent
<1>3. ASSUME NEW j \in Jobs, JobStep(j)
      PROVE  \/ UNCHANGED <<txStatus, eventStatus, related>>
             \/ SettlesEvent(j)
  BY <1>3
  DEF JobStep, GivesUp, Take, SkipsEvent, HandlesEvent, ReadTransaction, UpdateStatus,
      Refund, ReadPayment, Credit, Completes
<1>4. CASE UNCHANGED vars
  BY <1>4 DEF vars
<1> QED BY <1>1, <1>2, <1>3, <1>4, SettlementSteps

LEMMA SettledStep ==
  ASSUME SettlementConditions, SInv, [Next]_vars, NEW t \in Transactions
  PROVE  SettledBySomeEvent(t)'
<1> USE DEF SInv, JInv
<1>1. /\ SettledBySomeEvent(t) /\ t # NoRow
      /\ TypeOf[t] = "DEPOSIT" => txStatus'[t] = "SUCCESS"
      /\ TypeOf[t] # "DEPOSIT" => txStatus'[t] # "FAILED"
  BY StatusChanges, IdsAssumption DEF SettledByAnEvent, SettledBySomeEvent
<1>2. ASSUME NEW j \in Jobs, SettlesEvent(j), txStatus'[t] \in {"SUCCESS", "REVERSED"},
             TypeOf[t] # "DEPOSIT"
      PROVE  \E e \in Events : related'[e] = t
  <2>1. CASE owner[t] = Inner(j)
    BY <1>2, <2>1, MarkEffects, JobFields
  <2>2. CASE owner[t] # Inner(j)
    <3>1. PICK e \in Events : related[e] = t
      BY <1>1, <1>2, <2>2, MarkEffects DEF SettledBySomeEvent
    <3>2. e # j.event
      BY <1>1, <1>2, <3>1, MarkEffects
    <3> QED BY <1>2, <3>1, <3>2, MarkEffects
  <2> QED BY <2>1, <2>2
<1>3. ASSUME related' = related, txStatus'[t] \in {"SUCCESS", "REVERSED"},
             \/ txStatus'[t] = txStatus[t]
             \/ txStatus[t] = "absent" /\ txStatus'[t] = "PENDING",
             TypeOf[t] # "DEPOSIT"
      PROVE  \E e \in Events : related'[e] = t
  BY <1>1, <1>3 DEF SettledBySomeEvent
<1>4. TypeOf[t] # "DEPOSIT" /\ txStatus'[t] \in {"SUCCESS", "REVERSED"} =>
        \E e \in Events : related'[e] = t
  BY <1>2, <1>3, EventChanges
<1> QED BY <1>1, <1>4 DEF SettledBySomeEvent

(***************************************************************************)
(* What an event reports, once it is marked, is so and stays so.           *)
(***************************************************************************)
TookEffect(e) ==
  LET p == payload[e]
  IN  /\ Outcome(p) = "success" => txStatus[p.subject] = "SUCCESS"
      /\ Outcome(p) = "failed" => txStatus[p.subject] \in {"FAILED", "REVERSED"}
      /\ Outcome(p) = "payment" => \E x \in credited : payload[x].subject = p.subject
      /\ Outcome(p) # "rejected"

LEMMA EffectStep ==
  ASSUME SettlementConditions, SInv, [Next]_vars
  PROVE  ProcessedEventsTookEffect'
<1> USE DEF SInv, JInv
<1> SUFFICES ASSUME NEW e \in Events, eventStatus'[e] = "PROCESSED"
             PROVE  TookEffect(e)'
  BY Zenon DEF ProcessedEventsTookEffect, TookEffect
<1>1. /\ Outcome(payload[e]) \in {"success", "failed"} => payload[e].subject \in Transactions
      /\ payload' = payload
  BY Outcomes, StatusChanges
<1>2. CASE eventStatus[e] = "PROCESSED"
  <2>1. TookEffect(e)
    BY <1>2 DEF ProcessedEventsTookEffect, TookEffect
  <2> QED BY <1>1, <2>1, StatusChanges DEF TookEffect
<1>3. ASSUME NEW j \in Jobs, SettlesEvent(j), j.event = e
      PROVE  TookEffect(e)'
  <2>1. /\ OutcomeOf(j) = Outcome(payload[e]) /\ Subject(j) = payload[e].subject
        /\ at[j] = "mark" /\ HoldsItsLocks(j) /\ OutcomeOf(j) # "rejected"
    BY <1>3, MarkEffects
    DEF OutcomeOf, Subject, LocksAreHeld, JobsAreInOrder, InOrder
  <2>2. CASE Settles(j)
    <3>1. Subject(j) \in Transactions
      BY <1>1, <2>1, <2>2 DEF Settles
    <3>2. CASE owner[Subject(j)] = Inner(j)
      BY <1>1, <1>3, <2>1, <2>2, <3>1, <3>2, MarkEffects DEF TookEffect, Settles
    <3>3. CASE owner[Subject(j)] # Inner(j)
      <4>1. AlreadySettled(j)
        BY <2>1, <2>2, <3>3 DEF HoldsItsLocks
      <4> QED BY <1>1, <1>3, <2>1, <2>2, <3>1, <3>3, <4>1, MarkEffects
              DEF TookEffect, Settles, AlreadySettled
    <3> QED BY <3>2, <3>3
  <2>3. CASE OutcomeOf(j) = "payment"
    <3>1. linking[j] \in credited' /\ payload[linking[j]].subject = Subject(j)
      BY <1>3, <2>1, <2>3, MarkEffects, JobFields DEF HoldsItsLocks, Subject
    <3> QED BY <1>1, <2>1, <2>3, <3>1 DEF TookEffect
  <2>4. CASE ~ Settles(j) /\ OutcomeOf(j) # "payment"
    BY <1>1, <2>1, <2>4 DEF TookEffect, Settles
  <2> QED BY <2>2, <2>3, <2>4
<1>4. ASSUME NEW j \in Jobs, SettlesEvent(j), j.event # e
      PROVE  eventStatus[e] = "PROCESSED"
  BY <1>4, MarkEffects
<1> QED BY <1>2, <1>3, <1>4, EventChanges

(***************************************************************************)
(* Events are processed once, under locks, and settle for good, while      *)
(* nothing is replayed and only withdrawals are reported as failed.        *)
(***************************************************************************)
THEOREM SettlementInvariance ==
  ASSUME SettlementConditions
  PROVE  Spec => []SInv
<1>1. Init => SInv
  <2> SUFFICES ASSUME Init PROVE SInv
    OBVIOUS
  <2>1. EventsAreProcessedOnce
    BY JobFields DEF Init, EventsAreProcessedOnce
  <2>2. LocksAreNeeded
    BY DEF Init, LocksAreNeeded
  <2>3. LocksAreHeld
    BY DEF Init, LocksAreHeld, HoldsItsLocks
  <2>4. SettledByAnEvent
    BY TypeOfAssumption, InitialStatusAssumption
    DEF Init, SettledByAnEvent, SettledBySomeEvent, HasRead
  <2>5. ProcessedEventsTookEffect
    BY DEF Init, ProcessedEventsTookEffect
  <2> QED BY <2>1, <2>2, <2>3, <2>4, <2>5, JobInit DEF SInv
<1>2. SInv /\ [Next]_vars => SInv'
  <2> SUFFICES ASSUME SInv, [Next]_vars PROVE SInv'
    OBVIOUS
  <2>1. JInv'
    BY TypeStep, OrderStep DEF SInv, JInv
  <2>2. SettledByAnEvent'
    BY LocksStep, SettledStep DEF SettledByAnEvent
  <2> QED BY <2>1, <2>2, ProcessedOnceStep, LocksStep, EffectStep DEF SInv
<1> QED BY <1>1, <1>2, PTL DEF Spec

(***************************************************************************)
(* A completed job has marked its event: no status that an attempt leaves  *)
(* behind makes a later one skip it (webhooks.service.ts).                 *)
(***************************************************************************)
THEOREM CompletionsTrue ==
  ASSUME SettlementConditions
  PROVE  Spec => []CompletedMeansProcessed
<1>1. SInv => CompletedMeansProcessed
  BY DEF SInv, EventsAreProcessedOnce, CompletedMeansProcessed
<1> QED BY <1>1, SettlementInvariance, PTL

(***************************************************************************)
(* An event marked PROCESSED has had the effect it reports, and keeps it,  *)
(* whatever other events, workers and faults do.                           *)
(***************************************************************************)
THEOREM EffectsLast ==
  ASSUME SettlementConditions
  PROVE  Spec => []ProcessedEventsTookEffect
<1>1. SInv => ProcessedEventsTookEffect
  BY DEF SInv
<1> QED BY <1>1, SettlementInvariance, PTL

(***************************************************************************)
(* The provider's first report settles a withdrawal: the status, seen or   *)
(* not by the workers that hold another report, never changes again.       *)
(***************************************************************************)
THEOREM FirstReport ==
  ASSUME SettlementConditions
  PROVE  Spec => FirstReportDecides
<1>1. SInv /\ [Next]_vars =>
        [\A t \in Transactions :
           TypeOf[t] = "WITHDRAWAL" /\ txStatus[t] \in {"SUCCESS", "REVERSED", "FAILED"} =>
             txStatus'[t] = txStatus[t]]_vars
  BY StatusChanges
<1> QED BY <1>1, SettlementInvariance, PTL DEF Spec, FirstReportDecides

-----------------------------------------------------------------------------
(***************************************************************************)
(* Refinement: marking an event is one step of Settlement, or none.        *)
(***************************************************************************)
LEMMA MarkImplements ==
  ASSUME SettlementConditions, SInv, NEW j \in Jobs, SettlesEvent(j)
  PROVE  \/ \E t \in Settled!Withdrawals : Settled!Succeed(t) \/ Settled!Reverse(t)
         \/ Subject(j) \in Payments /\ Settled!CreditPayment(j.event, Subject(j))
         \/ UNCHANGED <<txStatus, balance, credited>>
<1> USE DEF SInv, JInv, TypeOK
<1>1. /\ HoldsItsLocks(j) /\ HasRead(j) /\ at[j] = "mark" /\ j.event \in Events
      /\ RelatedTo(j) = {} /\ j.event \notin credited
      /\ OutcomeOf(j) # "rejected"
  BY MarkEffects, JobFields
  DEF LocksAreHeld, SettledByAnEvent, JobsAreInOrder, InOrder, SettlesEvent
<1>2. /\ \A w \in Wallets : balance'[w] = IF owner[w] = Inner(j)
                              THEN balance[w] + AmountOf[Subject(j)] ELSE balance[w]
      /\ balance' = [w \in Wallets |-> balance'[w]]
      /\ txStatus' = [t \in Transactions |-> txStatus'[t]]
      /\ credited' = IF linking[j] = j.event THEN credited \cup {j.event} ELSE credited
  BY DEF SettlesEvent, MarksEvent
<1>3. \A w \in Wallets : owner[w] = Inner(j) => w \in Rows /\ Needs(j, w)
  BY OnlyInnerLocks DEF Rows
<1>4. \A t \in Transactions : owner[t] # Inner(j) => txStatus'[t] = txStatus[t]
  BY MarkEffects
<1>5. \A t \in Transactions : owner[t] = Inner(j) => t = Subject(j) /\ Settles(j)
  BY <1>1, PendingUntilMarked
<1>6. CASE Settles(j)
  <2>1. Subject(j) \in Transactions /\ linking[j] = Subject(j) /\ linking[j] # j.event
    BY <1>1, <1>6, SubjectOfJob, IdsAssumption DEF HasRead, Settles
  <2>2. credited' = credited
    BY <1>2, <2>1
  <2> DEFINE t == Subject(j)
  <2>3. t \notin Wallets /\ WalletOf[t] \in Wallets /\ AmountOf[t] \in Int
    BY <2>1, IdsAssumption, WalletOfAssumption, AmountOfAssumption
  <2>4. CASE owner[t] = Inner(j)
    <3>1. /\ txStatus[t] = "PENDING" /\ t \in Settled!Withdrawals
          /\ txStatus'[t] = IF OutcomeOf(j) = "success" THEN "SUCCESS" ELSE "REVERSED"
      BY <2>1, <2>4, MarkEffects DEF Settled!Withdrawals
    <3>2. txStatus' = [txStatus EXCEPT ![t] = txStatus'[t]]
      BY <1>2, <1>4, <1>5, <2>1
    <3>3. CASE OutcomeOf(j) = "success"
      <4>1. \A w \in Wallets : owner[w] # Inner(j)
        BY <1>3, <2>3, <3>3 DEF Needs, NeedsRefund
      <4>2. balance' = balance
        BY <1>2, <4>1
      <4> QED BY <2>2, <3>1, <3>2, <3>3, <4>2 DEF Settled!Succeed, Settled!Become
    <3>4. CASE OutcomeOf(j) = "failed"
      <4>1. owner[WalletOf[t]] = Inner(j)
        BY <1>1, <1>6, <2>1, <2>4, <3>4, PendingUntilMarked DEF HoldsItsLocks
      <4>2. \A w \in Wallets : owner[w] = Inner(j) <=> w = WalletOf[t]
        BY <1>3, <2>3, <3>4, <4>1 DEF Needs
      <4>3. balance' = [balance EXCEPT ![WalletOf[t]] = @ + AmountOf[t]]
        BY <1>2, <2>3, <4>2
      <4> QED BY <2>2, <3>1, <3>2, <3>4, <4>3
              DEF Settled!Reverse, Settled!Become, Settled!Add
    <3> QED BY <1>6, <3>3, <3>4 DEF Settles
  <2>5. CASE owner[t] # Inner(j)
    <3>1. txStatus' = txStatus
      BY <1>2, <1>4, <1>5, <2>5
    <3>2. \A w \in Wallets : owner[w] # Inner(j)
      BY <1>3, <1>6, <2>3, <2>5 DEF Needs, Settles
    <3> QED BY <1>2, <2>2, <3>1, <3>2
  <2> QED BY <2>4, <2>5
<1>7. CASE OutcomeOf(j) = "payment"
  <2> DEFINE p == Subject(j)
  <2>1. /\ p \in Payments /\ WalletOf[p] \in Wallets /\ AmountOf[p] \in Int
    BY <1>7, SubjectOfJob
  <2>2. txStatus' = txStatus
    BY <1>2, <1>4, <1>5, <1>7 DEF Settles
  <2>3. CASE linking[j] = j.event
    <3>1. \A w \in Wallets : owner[w] = Inner(j) <=> w = WalletOf[p]
      BY <1>1, <1>3, <1>7, <2>1, <2>3 DEF Needs, HoldsItsLocks, Settles
    <3>2. balance' = [balance EXCEPT ![WalletOf[p]] = @ + AmountOf[p]]
      BY <1>2, <2>1, <3>1
    <3> QED BY <1>1, <1>2, <2>1, <2>2, <2>3, <3>2
            DEF Settled!CreditPayment, Settled!Add
  <2>4. CASE linking[j] # j.event
    <3>1. \A w \in Wallets : owner[w] # Inner(j)
      BY <1>3, <1>7, <2>4 DEF Needs, Settles
    <3> QED BY <1>2, <2>2, <2>4, <3>1
  <2> QED BY <2>3, <2>4
<1>8. CASE OutcomeOf(j) = "ignored"
  <2>1. linking[j] # j.event
    BY <1>1, <1>8, IdsAssumption DEF HasRead
  <2>2. txStatus' = txStatus
    BY <1>2, <1>4, <1>5, <1>8 DEF Settles
  <2>3. \A w \in Wallets : owner[w] # Inner(j)
    BY <1>3, <1>8 DEF Needs, Settles
  <2> QED BY <1>2, <2>1, <2>2, <2>3
<1> QED BY <1>1, <1>6, <1>7, <1>8, SubjectOfJob DEF Settles

LEMMA StepImplements ==
  ASSUME SettlementConditions, SInv, [Next]_vars
  PROVE  \/ \E t \in Settled!Withdrawals :
              Settled!Withdraw(t) \/ Settled!Succeed(t) \/ Settled!Reverse(t)
         \/ \E j \in Jobs : /\ Subject(j) \in Payments
                            /\ Settled!CreditPayment(j.event, Subject(j))
         \/ UNCHANGED <<txStatus, balance, credited>>
<1> USE DEF SInv, JInv, TypeOK, rows
<1>1. ASSUME NEW t \in Transactions, CommitWithdrawal(t)
      PROVE  t \in Settled!Withdrawals /\ Settled!Withdraw(t)
  <2>1. t \in Settled!Withdrawals
    BY <1>1, TypeOfAssumption
    DEF CommitWithdrawal, SettledByAnEvent, SettledBySomeEvent, Settled!Withdrawals
  <2>2. balance' = [balance EXCEPT ![WalletOf[t]] = @ + (-AmountOf[t])]
    BY <1>1, WalletOfAssumption, AmountOfAssumption DEF CommitWithdrawal
  <2> QED BY <1>1, <2>1, <2>2
          DEF CommitWithdrawal, Settled!Withdraw, Settled!Become, Settled!Add
<1>2. CASE \E e \in Events : Receive(e) \/ StoreEvent(e) \/ LoseEvent(e)
  BY <1>2 DEF Receive, StoreEvent, LoseEvent
<1>3. ASSUME NEW j \in Jobs, JobStep(j)
      PROVE  SettlesEvent(j) \/ UNCHANGED <<txStatus, balance, credited>>
  BY <1>3
  DEF JobStep, GivesUp, Take, SkipsEvent, HandlesEvent, ReadTransaction,
      UpdateStatus, Refund, ReadPayment, Credit, Completes
<1>4. CASE UNCHANGED vars
  BY <1>4 DEF vars
<1> QED BY <1>1, <1>2, <1>3, <1>4, SettlementSteps, MarkImplements

(***************************************************************************)
(* Events, jobs, retries, workers and faults implement Settlement while    *)
(* nothing is replayed: a withdrawal settles once, refund and reversal are *)
(* one step, a payment is credited in one step with the row that says so.  *)
(***************************************************************************)
THEOREM SettlementRefinement ==
  ASSUME SettlementConditions
  PROVE  Spec => ImplementsSettlement
<1>1. Init => Settled!Init
  BY InitialBalanceAssumption DEF Init, Settled!Init
<1>2. SInv /\ [Next]_vars => [Settled!Next]_(Settled!vars)
  BY StepImplements, JobFields DEF Settled!Next, Settled!vars
<1> QED
  BY <1>1, <1>2, SettlementInvariance, PTL DEF Spec, ImplementsSettlement, Settled!Spec

-----------------------------------------------------------------------------
(***************************************************************************)
(* The sums of a wallet's statement, and how one row changes them.         *)
(***************************************************************************)
LEMMA OneTransactionChanges ==
  ASSUME IsFiniteSet(Transactions),
         NEW f \in [Transactions -> Int], NEW e \in [Transactions -> Int],
         NEW t \in Transactions, \A x \in Transactions \ {t} : e[x] = f[x],
         NEW w
  PROVE  /\ SumFunctionOnSet(f, TransactionsOf(w)) \in Int
         /\ SumFunctionOnSet(e, TransactionsOf(w))
              = SumFunctionOnSet(f, TransactionsOf(w))
                  + (IF WalletOf[t] = w THEN e[t] - f[t] ELSE 0)
<1> DEFINE T == TransactionsOf(w)
<1>1. /\ IsFiniteSet(T) /\ T \subseteq Transactions
      /\ t \in T <=> WalletOf[t] = w
  BY FS_Subset DEF TransactionsOf
<1>2. \A x \in T : f[x] \in Int /\ e[x] \in Int
  BY <1>1
<1> HIDE DEF T
<1>3. SumFunctionOnSet(f, T) \in Int
  BY <1>1, <1>2, SumIsInteger
<1>4. CASE t \in T
  <2>1. SumFunctionOnSet(e, T) = SumFunctionOnSet(f, T) + e[t] - f[t]
    BY <1>1, <1>2, <1>4, SumWithChange
  <2> QED BY <1>1, <1>2, <1>3, <1>4, <2>1 DEF T
<1>5. CASE t \notin T
  <2>1. SumFunctionOnSet(f, T) = SumFunctionOnSet(e, T)
    BY <1>1, <1>5, SumOfSame
  <2> QED BY <1>1, <1>3, <1>5, <2>1 DEF T
<1> QED BY <1>4, <1>5

LEMMA StatementTypes ==
  /\ \A t \in Transactions : \A status : SignedAs(t, status) \in Int
  /\ IsFiniteSet(Transactions) => \A w \in Wallets : OpeningBalance(w) \in Int
<1>1. \A t \in Transactions : \A status : SignedAs(t, status) \in Int
  BY AmountOfAssumption DEF SignedAs
<1>2. ASSUME IsFiniteSet(Transactions), NEW w \in Wallets
      PROVE  OpeningBalance(w) \in Int
  <2> DEFINE f == [t \in Transactions |-> SignedAtFirst(t)]
  <2>1. /\ IsFiniteSet(TransactionsOf(w))
        /\ \A t \in TransactionsOf(w) : f[t] \in Int
    BY <1>1, <1>2, FS_Subset DEF TransactionsOf, SignedAtFirst
  <2>2. OpeningBalance(w) = InitialBalance[w] - SumFunctionOnSet(f, TransactionsOf(w))
    BY DEF OpeningBalance
  <2> HIDE DEF f
  <2>3. SumFunctionOnSet(f, TransactionsOf(w)) \in Int
    BY <2>1, SumIsInteger
  <2> QED BY <2>2, <2>3, InitialBalanceAssumption
<1> QED BY <1>1, <1>2

(***************************************************************************)
(* The events credited are finitely many reports of payments.              *)
(***************************************************************************)
CreditsArePayments ==
  /\ IsFiniteSet(credited)
  /\ \A e \in credited : payload[e].subject \in Payments

LEMMA OnePaymentMore ==
  ASSUME CreditsArePayments, payload' = payload, NEW e, e \notin credited,
         payload[e].subject \in Payments, credited' = credited \cup {e},
         NEW w \in Wallets
  PROVE  /\ CreditsArePayments'
         /\ PaymentsCredited(w) \in Int
         /\ PaymentsCredited(w)' = PaymentsCredited(w)
              + (IF WalletOf[payload[e].subject] = w THEN AmountCredited(e) ELSE 0)
<1> DEFINE f == [x \in credited |-> AmountCredited(x)]
           g == [x \in credited' |-> AmountCredited(x)]
           D == DepositRows(w)
           E == DepositRows(w)'
<1>1. CreditsArePayments'
  BY FS_AddElement DEF CreditsArePayments
<1>2. /\ IsFiniteSet(D) /\ D \subseteq credited
      /\ E = IF WalletOf[payload[e].subject] = w THEN D \cup {e} ELSE D
  BY FS_Subset DEF CreditsArePayments, DepositRows
<1>3. \A x \in credited \cup {e} : AmountCredited(x) \in Int
  BY AmountOfAssumption DEF CreditsArePayments, AmountCredited
<1>4. /\ \A x \in D : f[x] \in Int /\ f[x] = g[x] /\ g[x] \in Int
      /\ g[e] = AmountCredited(e) /\ g[e] \in Int
  BY <1>2, <1>3
<1>5. /\ PaymentsCredited(w) = SumFunctionOnSet(f, D)
      /\ PaymentsCredited(w)' = SumFunctionOnSet(g, E)
  BY DEF PaymentsCredited, AmountCredited
<1> HIDE DEF f, g, D, E
<1>6. SumFunctionOnSet(f, D) = SumFunctionOnSet(g, D) /\ SumFunctionOnSet(f, D) \in Int
  BY <1>2, <1>4, SumOfSame, SumIsInteger
<1>7. e \notin D
  BY <1>2
<1>8. SumFunctionOnSet(g, D \cup {e}) = SumFunctionOnSet(g, D) + g[e]
  BY <1>2, <1>4, <1>7, SumWith
<1> QED BY <1>1, <1>2, <1>4, <1>5, <1>6, <1>8

LEMMA PaymentsType ==
  ASSUME CreditsArePayments, NEW w \in Wallets
  PROVE  PaymentsCredited(w) \in Int
<1> DEFINE f == [x \in credited |-> AmountCredited(x)]
           D == DepositRows(w)
<1>1. /\ IsFiniteSet(D) /\ D \subseteq credited
      /\ \A x \in D : f[x] \in Int
  BY FS_Subset, AmountOfAssumption DEF CreditsArePayments, DepositRows, AmountCredited
<1>2. PaymentsCredited(w) = SumFunctionOnSet(f, D)
  BY DEF PaymentsCredited
<1> HIDE DEF f, D
<1>3. SumFunctionOnSet(f, D) \in Int
  BY <1>1, SumIsInteger
<1> QED BY <1>2, <1>3

LEMMA SamePayments ==
  ASSUME CreditsArePayments, UNCHANGED <<credited, payload>>, NEW w \in Wallets
  PROVE  /\ CreditsArePayments'
         /\ PaymentsCredited(w) \in Int
         /\ PaymentsCredited(w)' = PaymentsCredited(w)
<1>1. CreditsArePayments' /\ PaymentsCredited(w)' = PaymentsCredited(w)
  BY DEF CreditsArePayments, PaymentsCredited, DepositRows, AmountCredited
<1> QED BY <1>1, PaymentsType

(***************************************************************************)
(* Every step of Settlement moves in the balance what it moves in the      *)
(* statement.                                                              *)
(***************************************************************************)
LEMMA StatementStep ==
  ASSUME SettlementConditions, IsFiniteSet(Transactions), SInv, [Next]_vars,
         CreditsArePayments, StatementExplainsBalance
  PROVE  CreditsArePayments' /\ StatementExplainsBalance'
<1> DEFINE f == [t \in Transactions |-> Signed(t)]
           e == [t \in Transactions |-> Signed(t)']
<1> USE DEF SInv, JInv, TypeOK
<1>1. f \in [Transactions -> Int] /\ e \in [Transactions -> Int]
  BY StatementTypes DEF Signed
<1>2. ASSUME NEW w \in Wallets
      PROVE  /\ balance[w] \in Int /\ OpeningBalance(w) \in Int
             /\ balance[w] = OpeningBalance(w)
                  + SumFunctionOnSet(f, TransactionsOf(w)) + PaymentsCredited(w)
             /\ StatementBalance(w)' = OpeningBalance(w)
                  + SumFunctionOnSet(e, TransactionsOf(w)) + PaymentsCredited(w)'
  BY StatementTypes
  DEF StatementExplainsBalance, StatementBalance, OpeningBalance, TransactionsOf,
      SignedAtFirst
<1>3. payload' = payload
  BY StatusChanges
<1>4. ASSUME NEW t \in Settled!Withdrawals,
             Settled!Withdraw(t) \/ Settled!Succeed(t) \/ Settled!Reverse(t),
             NEW w \in Wallets
      PROVE  balance'[w] = StatementBalance(w)'
  <2>1. /\ t \in Transactions /\ credited' = credited
        /\ AmountOf[t] \in Nat /\ WalletOf[t] \in Wallets
        /\ \A x \in Transactions \ {t} : txStatus'[x] = txStatus[x]
    BY <1>4, AmountOfAssumption, WalletOfAssumption
    DEF Settled!Withdrawals, Settled!Withdraw, Settled!Succeed, Settled!Reverse,
        Settled!Become
  <2>2. balance'[w] = balance[w] + (IF WalletOf[t] = w THEN e[t] - f[t] ELSE 0)
    BY <1>2, <1>4, <2>1
    DEF Settled!Withdrawals, Settled!Withdraw, Settled!Succeed, Settled!Reverse,
        Settled!Become, Settled!Add, Signed, SignedAs
  <2>3. \A x \in Transactions \ {t} : e[x] = f[x]
    BY <2>1 DEF Signed
  <2> HIDE DEF e, f
  <2>4. /\ SumFunctionOnSet(f, TransactionsOf(w)) \in Int
        /\ SumFunctionOnSet(e, TransactionsOf(w))
             = SumFunctionOnSet(f, TransactionsOf(w))
                 + (IF WalletOf[t] = w THEN e[t] - f[t] ELSE 0)
    BY <1>1, <2>1, <2>3, OneTransactionChanges
  <2>5. e[t] \in Int /\ f[t] \in Int
    BY <1>1, <2>1
  <2> QED BY <1>2, <1>3, <2>1, <2>2, <2>4, <2>5, SamePayments
<1>5. ASSUME UNCHANGED txStatus, NEW w \in Wallets
      PROVE  /\ SumFunctionOnSet(f, TransactionsOf(w)) \in Int
             /\ SumFunctionOnSet(e, TransactionsOf(w))
                  = SumFunctionOnSet(f, TransactionsOf(w))
  <2>1. e = f
    BY <1>5 DEF Signed
  <2>2. IsFiniteSet(TransactionsOf(w)) /\ \A t \in TransactionsOf(w) : f[t] \in Int
    BY <1>1, FS_Subset DEF TransactionsOf
  <2> HIDE DEF e, f
  <2> QED BY <2>1, <2>2, SumIsInteger
<1>6. ASSUME NEW j \in Jobs, Subject(j) \in Payments,
             Settled!CreditPayment(j.event, Subject(j)), NEW w \in Wallets
      PROVE  CreditsArePayments' /\ balance'[w] = StatementBalance(w)'
  <2>1. /\ j.event \notin credited /\ credited' = credited \cup {j.event}
        /\ payload[j.event].subject \in Payments /\ UNCHANGED txStatus
        /\ AmountOf[Subject(j)] \in Nat /\ WalletOf[Subject(j)] \in Wallets
    BY <1>6, AmountOfAssumption, WalletOfAssumption DEF Settled!CreditPayment, Subject
  <2>2. balance'[w] = balance[w]
          + (IF WalletOf[payload[j.event].subject] = w THEN AmountCredited(j.event) ELSE 0)
    BY <1>2, <1>6, <2>1 DEF Settled!CreditPayment, Settled!Add, Subject, AmountCredited
  <2>3. /\ CreditsArePayments' /\ PaymentsCredited(w) \in Int
        /\ PaymentsCredited(w)' = PaymentsCredited(w)
             + (IF WalletOf[payload[j.event].subject] = w THEN AmountCredited(j.event) ELSE 0)
    BY <1>3, <2>1, OnePaymentMore
  <2>4. AmountCredited(j.event) \in Int
    BY <2>1 DEF AmountCredited, Subject
  <2> HIDE DEF e, f
  <2> QED BY <1>2, <1>5, <2>1, <2>2, <2>3, <2>4
<1>7. ASSUME UNCHANGED <<txStatus, balance, credited>>, NEW w \in Wallets
      PROVE  balance'[w] = StatementBalance(w)'
  <2> HIDE DEF e, f
  <2> QED BY <1>2, <1>3, <1>5, <1>7, SamePayments
<1>8. CreditsArePayments'
  <2>1. CASE credited' = credited
    BY <1>3, <2>1 DEF CreditsArePayments
  <2>2. ASSUME NEW j \in Jobs, Subject(j) \in Payments,
               Settled!CreditPayment(j.event, Subject(j))
        PROVE  CreditsArePayments'
    BY <1>6, <2>2, WalletOfAssumption
  <2> QED
    BY <2>1, <2>2, StepImplements
    DEF Settled!Withdraw, Settled!Succeed, Settled!Reverse
<1> QED BY <1>4, <1>6, <1>7, <1>8, StepImplements DEF StatementExplainsBalance

LEMMA StatementInit ==
  ASSUME IsFiniteSet(Transactions), Init
  PROVE  CreditsArePayments /\ StatementExplainsBalance
<1>1. CreditsArePayments
  BY FS_EmptySet DEF Init, CreditsArePayments
<1>2. ASSUME NEW w \in Wallets
      PROVE  balance[w] = StatementBalance(w)
  <2> DEFINE f == [t \in Transactions |-> SignedAtFirst(t)]
             p == [x \in credited |-> AmountCredited(x)]
  <2>1. /\ balance[w] = InitialBalance[w] /\ DepositRows(w) = {}
        /\ f = [t \in Transactions |-> Signed(t)]
    BY DEF Init, DepositRows, Signed, SignedAtFirst
  <2>2. /\ OpeningBalance(w) = InitialBalance[w] - SumFunctionOnSet(f, TransactionsOf(w))
        /\ StatementBalance(w) = OpeningBalance(w)
             + SumFunctionOnSet(f, TransactionsOf(w)) + SumFunctionOnSet(p, {})
    BY <2>1 DEF OpeningBalance, StatementBalance, PaymentsCredited
  <2>3. /\ IsFiniteSet(TransactionsOf(w))
        /\ \A t \in TransactionsOf(w) : f[t] \in Int
    BY StatementTypes, FS_Subset DEF TransactionsOf, SignedAtFirst
  <2> HIDE DEF f, p
  <2>4. SumFunctionOnSet(f, TransactionsOf(w)) \in Int /\ SumFunctionOnSet(p, {}) = 0
    BY <2>3, SumIsInteger, SumOfNothing
  <2> QED BY <2>1, <2>2, <2>4, InitialBalanceAssumption
<1> QED BY <1>1, <1>2 DEF StatementExplainsBalance

LEMMA StatementInvariance ==
  ASSUME SettlementConditions, IsFiniteSet(Transactions)
  PROVE  Spec => [](CreditsArePayments /\ StatementExplainsBalance)
<1>1. Init => CreditsArePayments /\ StatementExplainsBalance
  BY StatementInit
<1>2. SInv /\ CreditsArePayments /\ StatementExplainsBalance /\ [Next]_vars =>
        CreditsArePayments' /\ StatementExplainsBalance'
  BY StatementStep
<1> QED BY <1>1, <1>2, SettlementInvariance, PTL DEF Spec

(***************************************************************************)
(* The statuses of a wallet's transactions and the payments credited to it *)
(* explain its balance in every reachable state: no retry, crash, lock or  *)
(* second worker separates a status from its money (the database           *)
(* transaction of processWebhookEvent).                                    *)
(***************************************************************************)
THEOREM StatementsExplain ==
  ASSUME SettlementConditions, IsFiniteSet(Transactions)
  PROVE  Spec => []StatementExplainsBalance
  BY StatementInvariance, PTL

LEMMA BoundIsMonotone ==
  ASSUME IsFiniteSet(Transactions), TypeOK, CreditsArePayments, NEW w \in Wallets,
         NEW f \in [Transactions -> Int], NEW e \in [Transactions -> Int],
         \A t \in Transactions : f[t] <= e[t],
         balance[w] <= OpeningBalance(w) + SumFunctionOnSet(f, TransactionsOf(w))
                         + PaymentsCredited(w)
  PROVE  balance[w] <= OpeningBalance(w) + SumFunctionOnSet(e, TransactionsOf(w))
                         + PaymentsCredited(w)
<1>1. IsFiniteSet(TransactionsOf(w)) /\ TransactionsOf(w) \subseteq Transactions
  BY FS_Subset DEF TransactionsOf
<1>2. /\ OpeningBalance(w) \in Int /\ PaymentsCredited(w) \in Int
      /\ balance[w] \in Int
  BY StatementTypes, PaymentsType DEF TypeOK
<1>3. \A t \in TransactionsOf(w) : f[t] \in Int /\ e[t] \in Int /\ f[t] <= e[t]
  BY <1>1
<1>4. /\ SumFunctionOnSet(f, TransactionsOf(w)) <= SumFunctionOnSet(e, TransactionsOf(w))
      /\ SumFunctionOnSet(f, TransactionsOf(w)) \in Int
      /\ SumFunctionOnSet(e, TransactionsOf(w)) \in Int
  BY <1>1, <1>3, SumIsMonotone, SumIsInteger
<1> QED BY <1>2, <1>4

LEMMA StatementIsBelow ==
  ASSUME IsFiniteSet(Transactions), TypeOK, CreditsArePayments,
         StatementExplainsBalance, NEW w \in Wallets,
         NEW e \in [Transactions -> Int], \A t \in Transactions : Signed(t) <= e[t]
  PROVE  balance[w] <= OpeningBalance(w) + SumFunctionOnSet(e, TransactionsOf(w))
                         + PaymentsCredited(w)
<1> DEFINE f == [t \in Transactions |-> Signed(t)]
<1>1. f \in [Transactions -> Int] /\ \A t \in Transactions : f[t] <= e[t]
  BY StatementTypes DEF Signed
<1>2. balance[w] = OpeningBalance(w) + SumFunctionOnSet(f, TransactionsOf(w))
                     + PaymentsCredited(w)
  BY DEF StatementExplainsBalance, StatementBalance
<1>3. balance[w] \in Int
  BY DEF TypeOK
<1> HIDE DEF f
<1>4. balance[w] <= OpeningBalance(w) + SumFunctionOnSet(f, TransactionsOf(w))
                      + PaymentsCredited(w)
  BY <1>2, <1>3
<1> QED BY <1>1, <1>4, BoundIsMonotone

(***************************************************************************)
(* So, while nothing is replayed, no number of workers, retries or copies  *)
(* of a report refunds more than was debited (processFailedTransaction).   *)
(***************************************************************************)
THEOREM SettlementRefunds ==
  ASSUME SettlementConditions, IsFiniteSet(Transactions)
  PROVE  Spec => []RefundsNeverExceedDebits
<1>1. ASSUME TypeOK, CreditsArePayments, StatementExplainsBalance
      PROVE  RefundsNeverExceedDebits
  <2> DEFINE e == [t \in Transactions |-> Deposited(t)]
  <2>1. e \in [Transactions -> Int] /\ \A t \in Transactions : Signed(t) <= e[t]
    BY AmountOfAssumption, TypeOfAssumption DEF Signed, SignedAs, Deposited
  <2>2. SUFFICES \A w \in Wallets :
                   balance[w] <= OpeningBalance(w) + SumFunctionOnSet(e, TransactionsOf(w))
                                   + PaymentsCredited(w)
    BY DEF RefundsNeverExceedDebits
  <2> HIDE DEF e
  <2> QED BY <1>1, <2>1, StatementIsBelow
<1> QED BY <1>1, StatementInvariance, WebhookTypes, PTL

-----------------------------------------------------------------------------
(***************************************************************************)
(* One worker, with replays.                                               *)
(***************************************************************************)
LEMMA FiniteJobs == IsFiniteSet(Events) => IsFiniteSet(Jobs)
<1> SUFFICES ASSUME IsFiniteSet(Events) PROVE IsFiniteSet(Jobs)
  OBVIOUS
<1> DEFINE P == {Process(e) : e \in Events}
           R == {Replay(e) : e \in Events}
           p == [e \in Events |-> Process(e)]
           r == [e \in Events |-> Replay(e)]
<1>1. p \in Surjection(Events, P) /\ r \in Surjection(Events, R)
  BY DEF Surjection
<1>2. IsFiniteSet(P) /\ IsFiniteSet(R)
  <2> HIDE DEF P, R, p, r
  <2> QED BY <1>1, FS_Surjection
<1>3. Jobs \in SUBSET (P \cup R)
  BY JobFields
<1> HIDE DEF P, R
<1> QED BY <1>2, <1>3, FS_Union, FS_Subset

LEMMA WorkerIsFree ==
  ASSUME SingleWorker, JInv, NEW j \in Jobs, Take(j), NEW i \in Jobs
  PROVE  at[i] = "off"
<1>1. IsFiniteSet(Active)
  BY FiniteJobs, FS_Subset DEF Active, SingleWorker
<1>2. Cardinality(Active) = 0
  BY <1>1, FS_CardinalityType DEF Take, SingleWorker
<1>3. Active = {}
  BY <1>1, <1>2, FS_EmptySet
<1> QED BY <1>3 DEF Active, JInv, JobsAreInOrder, InOrder

(***************************************************************************)
(* Which steps change where the jobs are, and what is credited.            *)
(***************************************************************************)
SingleStep(j) ==
  /\ \A i \in Jobs \ {j} : at'[i] = at[i] /\ linking'[i] = linking[i]
  /\ \/ /\ at[j] # "off" /\ at'[j] = "off" /\ linking'[j] = NoRow
        /\ credited' = credited
     \/ /\ at[j] = "off" /\ Take(j)
        /\ at'[j] \in {"reset", "readEvent"} /\ UNCHANGED <<linking, credited>>
     \/ /\ at[j] \in {"reset", "readEvent"}
        /\ at'[j] \in {"readEvent", "return", "catch", "mark", "readPayment",
                       "readTransaction"}
        /\ UNCHANGED <<linking, credited>>
     \/ /\ at[j] = "readTransaction" /\ linking'[j] \in Transactions
        /\ at'[j] \in {"catch", "mark", "updateStatus"} /\ credited' = credited
     \/ /\ at[j] \in {"updateStatus", "refund"}
        /\ at'[j] \in {"refund", "mark"} /\ UNCHANGED <<linking, credited>>
     \/ /\ at[j] = "readPayment" /\ at'[j] = "credit" /\ ExistingRows(j) = {}
        /\ UNCHANGED <<linking, credited>>
     \/ /\ at[j] = "readPayment" /\ at'[j] = "mark" /\ linking'[j] \in credited
        /\ credited' = credited
     \/ /\ at[j] = "credit" /\ at'[j] = "mark" /\ linking'[j] = j.event
        /\ credited' = credited
     \/ /\ at[j] = "mark" /\ at'[j] = "return" /\ linking' = linking
        /\ credited' = IF linking[j] = j.event THEN credited \cup {j.event} ELSE credited

LEMMA SingleSteps ==
  ASSUME JInv, [Next]_vars
  PROVE  /\ payload' = payload
         /\ \/ /\ UNCHANGED <<at, linking, credited, seen, owner>>
               /\ \A t \in Transactions :
                    txStatus[t] = "absent" \/ txStatus'[t] = txStatus[t]
            \/ \E j \in Jobs : /\ SingleStep(j)
                               /\ Work(j) \/ ConnectionLost(j) \/ WorkerStops(j)
<1> USE DEF JInv, TypeOK, Goto, rows, locals
<1>1. CASE \/ \E t \in Transactions : CommitWithdrawal(t)
           \/ \E e \in Events : Receive(e) \/ StoreEvent(e) \/ LoseEvent(e) \/ AskReplay(e)
           \/ UNCHANGED vars
  BY <1>1 DEF CommitWithdrawal, Receive, StoreEvent, LoseEvent, AskReplay, vars
<1>2. ASSUME NEW j \in Jobs, Work(j) \/ ConnectionLost(j) \/ WorkerStops(j)
      PROVE  SingleStep(j) /\ payload' = payload
  <2>1. InOrder(j)
    BY DEF JobsAreInOrder
  <2>2. CASE GivesUp(j) \/ Return(j)
    BY <2>2, LeaveTypes DEF GivesUp, Return, SingleStep
  <2>3. CASE Take(j)
    <3>1. at[j] = "off"
      BY <2>1, <2>3 DEF Take, InOrder
    <3> QED BY <2>3, <3>1 DEF Take, SingleStep
  <2>4. CASE Reset(j) /\ ~ GivesUp(j)
    BY <2>4, BranchCases DEF SingleStep
  <2>5. CASE ReadEvent(j) /\ ~ GivesUp(j)
    BY <2>5, BranchCases, SubjectOfJob, Branches DEF SingleStep
  <2>6. CASE ReadTransaction(j)
    <3>1. Subject(j) \in Transactions
      BY <2>1, <2>6, SubjectOfJob DEF ReadTransaction, InOrder
    <3> QED BY <2>6, <3>1 DEF ReadTransaction, SingleStep
  <2>7. CASE UpdateStatus(j) \/ Refund(j)
    BY <2>7 DEF UpdateStatus, Refund, SingleStep
  <2>8. CASE ReadPayment(j)
    BY <2>8 DEF ReadPayment, ExistingRows, SingleStep
  <2>9. CASE Credit(j)
    BY <2>9, JobFields DEF Credit, SingleStep
  <2>10. CASE Mark(j) /\ ~ GivesUp(j)
    BY <2>10, BranchCases DEF MarksEvent, SingleStep
  <2> QED
    BY <1>2, <2>2, <2>3, <2>4, <2>5, <2>6, <2>7, <2>8, <2>9, <2>10, GivesUpCases
    DEF Work
<1> QED BY <1>1, <1>2 DEF Next, Quiet

LEMMA SingleWorkerStep ==
  ASSUME SingleWorker, RInv, [Next]_vars
  PROVE  OneJobAtATime' /\ CreditsAreNew' /\ PaymentCreditedOnce'
<1> USE DEF RInv, JInv
<1>1. payload' = payload /\ \A j : Subject(j)' = Subject(j)
  BY SingleSteps, SameReports
<1>2. CASE UNCHANGED <<at, linking, credited>>
  BY <1>1, <1>2 DEF OneJobAtATime, CreditsAreNew, PaymentCreditedOnce, ExistingRows
<1>3. ASSUME NEW j \in Jobs, SingleStep(j)
      PROVE  OneJobAtATime' /\ CreditsAreNew' /\ PaymentCreditedOnce'
  <2>1. \A i \in Jobs \ {j} : at[i] = "off" /\ at'[i] = "off" /\ linking'[i] = NoRow
    BY <1>3, WorkerIsFree DEF SingleStep, OneJobAtATime, CreditsAreNew
  <2>2. OneJobAtATime'
    BY <2>1 DEF OneJobAtATime
  <2>3. /\ j.event \in Events /\ j.event \notin Transactions
        /\ j.event # NoRow
    BY JobFields, IdsAssumption
  <2>4. /\ at'[j] \in {"off", "reset", "readEvent", "readTransaction", "readPayment",
                       "credit"} => linking'[j] = NoRow
        /\ at'[j] \in {"updateStatus", "refund"} => linking'[j] \in Transactions
        /\ at'[j] = "credit" => ExistingRows(j)' = {}
        /\ at'[j] = "mark" /\ linking'[j] = j.event =>
             j.event \in credited' \/ ExistingRows(j)' = {}
    BY <1>1, <1>3, <2>3 DEF SingleStep, CreditsAreNew, ExistingRows
  <2>5. CreditsAreNew'
    BY <2>1, <2>4 DEF CreditsAreNew
  <2>6. PaymentCreditedOnce'
    <3>1. CASE credited' = credited
      BY <1>1, <3>1 DEF PaymentCreditedOnce
    <3>2. CASE credited' # credited
      <4>1. credited' = credited \cup {j.event} /\ ExistingRows(j) = {}
        BY <1>3, <3>2 DEF SingleStep, CreditsAreNew
      <4> QED BY <1>1, <4>1 DEF PaymentCreditedOnce, ExistingRows, Subject
    <3> QED BY <3>1, <3>2
  <2> QED BY <2>2, <2>5, <2>6
<1> QED BY <1>2, <1>3, SingleSteps

LEMMA LocksOfStep ==
  ASSUME JInv, NEW j \in Jobs, Work(j) \/ ConnectionLost(j) \/ WorkerStops(j)
  PROVE  \A row \in Rows : owner'[row] \in {owner[row], NoRow, Inner(j), Outer(j)}
<1> USE DEF JInv, TypeOK
<1>1. CASE GivesUp(j) \/ Return(j)
  BY <1>1, LeaveLocks DEF GivesUp, Return
<1>2. CASE (Reset(j) \/ ReadEvent(j) \/ Mark(j)) /\ ~ GivesUp(j)
  BY <1>2, BranchCases DEF MarksEvent
<1>3. CASE \/ Take(j) \/ ReadTransaction(j) \/ UpdateStatus(j) \/ Refund(j)
           \/ ReadPayment(j) \/ Credit(j)
  BY <1>3 DEF Take, ReadTransaction, UpdateStatus, Refund, ReadPayment, Credit, Lock
<1> QED BY <1>1, <1>2, <1>3, GivesUpCases DEF Work

(***************************************************************************)
(* A step of the one job under way: what it has read, and its locks.       *)
(***************************************************************************)
LEMMA OnlyOneLocks ==
  ASSUME SingleWorker, RInv, NEW j \in Jobs, SingleStep(j), NEW i \in Jobs \ {j}
  PROVE  /\ at[i] = "off" /\ at'[i] = "off"
         /\ \A row \in Rows : owner[row] # Inner(i)
<1>1. at[i] = "off" /\ at'[i] = "off"
  BY WorkerIsFree DEF SingleStep, OneJobAtATime, RInv
<1>2. \A row \in Rows : owner[row] = Inner(i) => Needs(i, row)
  BY DEF RInv, LocksAreOwn
<1> QED BY <1>1, <1>2 DEF Needs

LEMMA CurrentStep ==
  ASSUME SingleWorker, RInv, NEW j \in Jobs, SingleStep(j), payload' = payload,
         Work(j) \/ ConnectionLost(j) \/ WorkerStops(j)
  PROVE  ReadsAreCurrent' /\ LocksAreOwn'
<1> USE DEF RInv, JInv, TypeOK, Goto, rows, locals
<1> DEFINE Reads(i) ==
      /\ at[i] \in {"updateStatus", "refund", "mark"} /\ Settles(i) =>
           /\ linking[i] \in Transactions
           /\ seen[i] = txStatus[Subject(i)] /\ seen[i] # "absent"
           /\ at[i] # "mark" \/ owner[Subject(i)] = Inner(i) => ~ AlreadySettled(i)
      /\ at[i] = "mark" /\ OutcomeOf(i) = "ignored" => linking[i] = NoRow
    Owns(i) ==
      /\ \A row \in Rows : owner[row] = Inner(i) => Needs(i, row)
      /\ at[i] = "refund" => owner[Subject(i)] = Inner(i) /\ NeedsRefund(i)
      /\ at[i] = "mark" /\ Settles(i) /\ owner[Subject(i)] = Inner(i) =>
           (NeedsRefund(i) <=> owner[WalletOf[Subject(i)]] = Inner(i))
      /\ at[i] = "mark" /\ OutcomeOf(i) = "payment" /\ linking[i] = i.event =>
           (i.event \notin credited <=> owner[WalletOf[Subject(i)]] = Inner(i))
<1>1. /\ OutcomeOf(j)' = OutcomeOf(j) /\ Subject(j)' = Subject(j)
      /\ Settles(j)' = Settles(j)
  BY SameReports DEF Settles
<1>2. /\ Settles(j) => /\ Subject(j) \in Transactions /\ Subject(j) \in Rows
                       /\ Subject(j) \notin Wallets
      /\ Settles(j) \/ OutcomeOf(j) = "payment" =>
           WalletOf[Subject(j)] \in Wallets /\ WalletOf[Subject(j)] \in Rows
      /\ j.event \in Events /\ j.event \in Rows /\ j.event \notin Transactions
  BY SubjectOfJob, IdsAssumption, JobFields DEF Rows, Settles
<1>3. Reads(j) /\ Owns(j) /\ InOrder(j)
  BY DEF ReadsAreCurrent, LocksAreOwn, JobsAreInOrder
<1>4. at[j] \notin {"refund", "mark"} => \A row \in Rows : owner[row] # Inner(j)
  BY <1>3 DEF Needs
<1>5. txStatus' = txStatus => AlreadySettled(j)' = AlreadySettled(j)
  BY <1>1 DEF AlreadySettled
<1>6. Reads(j)' /\ Owns(j)'
  <2>1. CASE GivesUp(j) \/ Return(j)
    <3>1. at'[j] = "off" /\ \A row \in Rows : owner'[row] # Inner(j)
      BY <2>1, LeaveTypes, LeaveLocks DEF GivesUp, Return
    <3> QED BY <3>1
  <2>2. CASE Take(j)
    <3>1. /\ owner' = owner /\ at[j] = "off" /\ at'[j] \in {"reset", "readEvent"}
      BY <1>3, <2>2 DEF Take, InOrder
    <3> QED BY <1>4, <3>1
  <2>3. CASE Reset(j) /\ ~ GivesUp(j)
    <3>1. /\ at[j] = "reset" /\ at'[j] = "readEvent"
          /\ owner' = [owner EXCEPT ![j.event] = Outer(j)]
      BY <2>3, BranchCases
    <3>2. \A row \in Rows : owner'[row] # Inner(j)
      BY <1>4, <3>1, Connections
    <3> QED BY <3>1, <3>2
  <2>4. CASE ReadEvent(j) /\ ~ GivesUp(j)
    <3>1. /\ at[j] = "readEvent" /\ UNCHANGED <<owner, linking>>
          /\ at'[j] \in {"return", "catch", "mark", "readPayment", "readTransaction"}
          /\ at'[j] = "mark" => OutcomeOf(j) = "ignored"
      BY <2>4, BranchCases, SubjectOfJob, Branches
    <3>2. linking[j] = NoRow
      BY <3>1 DEF CreditsAreNew
    <3> QED BY <1>1, <1>4, <3>1, <3>2 DEF Settles
  <2>5. CASE ReadTransaction(j)
    <3>1. /\ at[j] = "readTransaction" /\ UNCHANGED <<owner, txStatus>>
          /\ linking'[j] = Subject(j) /\ seen'[j] = txStatus[Subject(j)]
          /\ at'[j] \in {"catch", "mark", "updateStatus"}
          /\ txStatus[Subject(j)] = "absent" => at'[j] = "catch"
          /\ at'[j] = "updateStatus" => ~ AlreadySettled(j)
          /\ Settles(j)
      BY <1>3, <2>5 DEF ReadTransaction, InOrder, Settles
    <3> QED BY <1>1, <1>2, <1>4, <1>5, <3>1 DEF Settles
  <2>6. CASE UpdateStatus(j)
    <3>1. /\ at[j] = "updateStatus" /\ UNCHANGED <<seen, linking, txStatus>>
          /\ owner' = [owner EXCEPT ![Subject(j)] = Inner(j)]
          /\ at'[j] = IF NeedsRefund(j) THEN "refund" ELSE "mark"
          /\ Settles(j) /\ owner'[Subject(j)] = Inner(j)
          /\ ~ AlreadySettled(j)
      BY <1>2, <1>3, <2>6 DEF UpdateStatus, Lock, InOrder, Settles
    <3>2. NeedsRefund(j)' = NeedsRefund(j)
      BY <1>1, <3>1 DEF NeedsRefund
    <3>3. \A row \in Rows : owner'[row] = Inner(j) => row = Subject(j)
      BY <1>4, <3>1
    <3> QED BY <1>1, <1>2, <1>3, <1>5, <3>1, <3>2, <3>3 DEF Needs, Settles
  <2>7. CASE Refund(j)
    <3>1. /\ at[j] = "refund" /\ UNCHANGED <<seen, linking, txStatus>>
          /\ Settles(j) /\ NeedsRefund(j) /\ owner[Subject(j)] = Inner(j)
          /\ owner' = [owner EXCEPT ![WalletOf[Subject(j)]] = Inner(j)]
          /\ at'[j] = "mark" /\ owner'[Subject(j)] = Inner(j)
          /\ owner'[WalletOf[Subject(j)]] = Inner(j) /\ ~ AlreadySettled(j)
      BY <1>2, <1>3, <2>7 DEF Refund, Lock, InOrder, Settles
    <3>2. NeedsRefund(j)' = NeedsRefund(j)
      BY <1>1, <3>1 DEF NeedsRefund
    <3>3. \A row \in Rows : owner'[row] = Inner(j) =>
                               row \in {Subject(j), WalletOf[Subject(j)]}
      BY <1>3, <3>1 DEF Needs
    <3> QED BY <1>1, <1>2, <1>3, <1>5, <3>1, <3>2, <3>3 DEF Needs, Settles
  <2>8. CASE ReadPayment(j)
    <3>1. /\ at[j] = "readPayment" /\ owner' = owner /\ OutcomeOf(j) = "payment"
          /\ at'[j] \in {"credit", "mark"} /\ credited' = credited
          /\ at'[j] = "mark" => linking'[j] \in credited
      BY <1>3, <2>8 DEF ReadPayment, ExistingRows, InOrder
    <3> QED BY <1>1, <1>2, <1>4, <3>1 DEF Settles
  <2>9. CASE Credit(j)
    <3>1. /\ at[j] = "credit" /\ OutcomeOf(j) = "payment" /\ credited' = credited
          /\ owner' = [owner EXCEPT ![WalletOf[Subject(j)]] = Inner(j)]
          /\ at'[j] = "mark" /\ linking'[j] = j.event
      BY <1>3, <2>9 DEF Credit, Lock, InOrder
    <3>2. j.event \notin credited
      BY <3>1 DEF CreditsAreNew, ExistingRows, Subject
    <3>3. \A row \in Rows : owner'[row] = Inner(j) => row = WalletOf[Subject(j)]
      BY <1>4, <3>1
    <3> QED BY <1>1, <1>2, <3>1, <3>2, <3>3 DEF Needs, Settles
  <2>10. CASE Mark(j) /\ ~ GivesUp(j)
    <3>1. at'[j] = "return" /\ \A row \in Rows : owner'[row] # Inner(j)
      BY <2>10, BranchCases, Connections DEF MarksEvent
    <3> QED BY <3>1
  <2> QED
    BY <2>1, <2>2, <2>3, <2>4, <2>5, <2>6, <2>7, <2>8, <2>9, <2>10, GivesUpCases
    DEF Work
<1>7. \A row \in Rows : owner'[row] \in {owner[row], NoRow, Inner(j), Outer(j)}
  BY LocksOfStep
<1>8. ASSUME NEW i \in Jobs \ {j} PROVE Reads(i)' /\ Owns(i)'
  <2>1. /\ at'[i] = "off" /\ \A row \in Rows : owner[row] # Inner(i)
    BY OnlyOneLocks
  <2>2. \A row \in Rows : owner'[row] # Inner(i)
    BY <1>7, <2>1, Connections
  <2> QED BY <2>1, <2>2
<1> QED BY <1>6, <1>8 DEF ReadsAreCurrent, LocksAreOwn

LEMMA CurrentAndOwnStep ==
  ASSUME SingleWorker, RInv, [Next]_vars
  PROVE  ReadsAreCurrent' /\ LocksAreOwn'
<1> USE DEF RInv, JInv
<1>1. payload' = payload /\ \A j : OutcomeOf(j)' = OutcomeOf(j) /\ Subject(j)' = Subject(j)
  BY SingleSteps, SameReports
<1>2. ASSUME UNCHANGED <<at, linking, credited, seen, owner>>,
             \A t \in Transactions : txStatus[t] = "absent" \/ txStatus'[t] = txStatus[t]
      PROVE  ReadsAreCurrent' /\ LocksAreOwn'
  <2>1. \A j \in Jobs : /\ Settles(j)' = Settles(j) /\ NeedsRefund(j)' = NeedsRefund(j)
                        /\ Settles(j) => Subject(j) \in Transactions
    BY <1>1, <1>2, SubjectOfJob DEF Settles, NeedsRefund
  <2>2. ReadsAreCurrent'
    BY <1>1, <1>2, <2>1 DEF ReadsAreCurrent, AlreadySettled
  <2>3. \A j \in Jobs : \A row \in Rows : Needs(j, row)' = Needs(j, row)
    BY <1>1, <1>2, <2>1 DEF Needs
  <2>4. LocksAreOwn'
    BY <1>1, <1>2, <2>1, <2>3 DEF LocksAreOwn
  <2> QED BY <2>2, <2>4
<1> QED BY <1>1, <1>2, SingleSteps, CurrentStep

(***************************************************************************)
(* How a step moves the balances, the statuses and the credits.            *)
(***************************************************************************)
LEMMA MoneySteps ==
  ASSUME JInv, [Next]_vars
  PROVE  \/ \E t \in Transactions : CommitWithdrawal(t)
         \/ \E j \in Jobs : at[j] = "mark" /\ MarksEvent(j)
         \/ UNCHANGED <<txStatus, balance, credited>>
<1> USE DEF JInv, rows
<1>1. CASE \E e \in Events : Receive(e) \/ StoreEvent(e) \/ LoseEvent(e) \/ AskReplay(e)
  BY <1>1 DEF Receive, StoreEvent, LoseEvent, AskReplay
<1>2. ASSUME NEW j \in Jobs, Work(j) \/ ConnectionLost(j) \/ WorkerStops(j)
      PROVE  \/ at[j] = "mark" /\ MarksEvent(j)
             \/ UNCHANGED <<txStatus, balance, credited>>
  <2>1. CASE GivesUp(j) \/ Return(j)
    BY <2>1 DEF GivesUp, Return
  <2>2. CASE (Reset(j) \/ ReadEvent(j) \/ Mark(j)) /\ ~ GivesUp(j)
    BY <2>2, BranchCases
  <2>3. CASE \/ Take(j) \/ ReadTransaction(j) \/ UpdateStatus(j) \/ Refund(j)
             \/ ReadPayment(j) \/ Credit(j)
    BY <2>3 DEF Take, ReadTransaction, UpdateStatus, Refund, ReadPayment, Credit
  <2> QED BY <1>2, <2>1, <2>2, <2>3, GivesUpCases DEF Work
<1>3. CASE UNCHANGED vars
  BY <1>3 DEF vars
<1> QED BY <1>1, <1>2, <1>3 DEF Next, Quiet

LEMMA PendStep ==
  ASSUME RInv, [Next]_vars
  PROVE  OnlyWithdrawalsPend'
<1> USE DEF RInv, JInv, TypeOK, OnlyWithdrawalsPend
<1>1. CASE UNCHANGED <<txStatus, balance, credited>>
  BY <1>1
<1>2. ASSUME NEW t \in Transactions, CommitWithdrawal(t)
      PROVE  OnlyWithdrawalsPend'
  BY <1>2 DEF CommitWithdrawal
<1>3. ASSUME NEW j \in Jobs, MarksEvent(j)
      PROVE  OnlyWithdrawalsPend'
  BY <1>3 DEF MarksEvent, CommittedStatus
<1> QED BY <1>1, <1>2, <1>3, MoneySteps

(***************************************************************************)
(* With one worker at most one job is under way: the row it is about to    *)
(* insert is of a payment no row has, what it has read of a transaction is *)
(* so until it commits, and it has locked only what it changes.            *)
(***************************************************************************)
THEOREM SingleWorkerInvariance ==
  ASSUME SingleWorker
  PROVE  Spec => []RInv
<1>1. Init => RInv
  <2>1. Init => ReadsAreCurrent /\ LocksAreOwn
    BY Connections DEF Init, ReadsAreCurrent, LocksAreOwn
  <2>2. Init => OneJobAtATime /\ CreditsAreNew /\ PaymentCreditedOnce
    BY DEF Init, OneJobAtATime, CreditsAreNew, PaymentCreditedOnce
  <2>3. Init => OnlyWithdrawalsPend
    BY InitialStatusAssumption, TypeOfAssumption DEF Init, OnlyWithdrawalsPend
  <2> QED BY <2>1, <2>2, <2>3, JobInit DEF RInv
<1>2. RInv /\ [Next]_vars => RInv'
  BY SingleWorkerStep, CurrentAndOwnStep, PendStep, TypeStep, OrderStep DEF RInv, JInv
<1> QED BY <1>1, <1>2, PTL DEF Spec

(***************************************************************************)
(* One worker credits a payment into a virtual account once, in however    *)
(* many events it is reported and whatever is retried or replayed: the     *)
(* look-up by providerTransactionId then ensures it, as its comment says.  *)
(***************************************************************************)
THEOREM CreditedOnce ==
  ASSUME SingleWorker
  PROVE  Spec => []PaymentCreditedOnce
<1>1. RInv => PaymentCreditedOnce
  BY DEF RInv
<1> QED BY <1>1, SingleWorkerInvariance, PTL

-----------------------------------------------------------------------------
(***************************************************************************)
(* What the commit of a job does, in the terms of ReplayedSettlement.      *)
(***************************************************************************)
LEMMA MarkReplays ==
  ASSUME RInv, NEW j \in Jobs, at[j] = "mark", MarksEvent(j)
  PROVE  \/ \E t \in Replayed!Withdrawals : Replayed!Succeed(t) \/ Replayed!Reverse(t)
         \/ Subject(j) \in Transactions /\ Replayed!Contradict(Subject(j))
         \/ Subject(j) \in Payments /\ Replayed!CreditOnce(j.event, Subject(j))
         \/ UNCHANGED <<txStatus, balance, credited>>
<1> USE DEF RInv, JInv, TypeOK
<1>1. /\ \A w \in Wallets : balance'[w] = IF owner[w] = Inner(j)
                              THEN balance[w] + AmountOf[Subject(j)] ELSE balance[w]
      /\ balance' = [w \in Wallets |-> balance'[w]]
      /\ txStatus' = [t \in Transactions |->
                        IF owner[t] = Inner(j) THEN CommittedStatus(j) ELSE txStatus[t]]
      /\ credited' = IF linking[j] = j.event THEN credited \cup {j.event} ELSE credited
      /\ payload' = payload
  BY DEF MarksEvent
<1>2. /\ \A row \in Rows : owner[row] = Inner(j) => Needs(j, row)
      /\ Wallets \subseteq Rows /\ Transactions \subseteq Rows
      /\ j.event \in Events /\ j.event \notin Transactions /\ j.event # NoRow
  BY JobFields, IdsAssumption DEF LocksAreOwn, Rows
<1>3. OutcomeOf(j) # "rejected"
  BY DEF JobsAreInOrder, InOrder
<1>4. CASE Settles(j)
  <2> DEFINE t == Subject(j)
  <2>1. /\ t \in Transactions /\ linking[j] \in Transactions /\ seen[j] = txStatus[t]
        /\ t \notin Wallets /\ WalletOf[t] \in Wallets /\ seen[j] # "absent"
    BY <1>4, SubjectOfJob, IdsAssumption DEF ReadsAreCurrent, Settles
  <2>2. credited' = credited
    BY <1>1, <1>2, <2>1
  <2>3. \A x \in Transactions : owner[x] = Inner(j) => x = t
    BY <1>2, <1>4, <2>1, IdsAssumption DEF Needs, Settles
  <2>4. \A w \in Wallets : owner[w] = Inner(j) =>
          w = WalletOf[t] /\ NeedsRefund(j) /\ owner[t] = Inner(j)
    BY <1>2, <1>4, <2>1 DEF Needs, Settles
  <2>5. CASE owner[t] # Inner(j)
    BY <1>1, <2>2, <2>3, <2>4, <2>5
  <2>6. CASE owner[t] = Inner(j)
    <3>1. /\ ~ AlreadySettled(j)
          /\ NeedsRefund(j) <=> owner[WalletOf[t]] = Inner(j)
          /\ txStatus[t] = "PENDING" => TypeOf[t] = "WITHDRAWAL"
      BY <1>4, <2>1, <2>6 DEF ReadsAreCurrent, LocksAreOwn, OnlyWithdrawalsPend
    <3>2. txStatus' = [txStatus EXCEPT ![t] = CommittedStatus(j)]
      BY <1>1, <2>1, <2>3, <2>6
    <3>3. CASE NeedsRefund(j)
      <4>1. \A w \in Wallets : owner[w] = Inner(j) <=> w = WalletOf[t]
        BY <2>1, <2>4, <3>1, <3>3
      <4>2. balance' = [balance EXCEPT ![WalletOf[t]] = @ + AmountOf[t]]
        BY <1>1, <2>1, <4>1
      <4>3. t \in Replayed!Withdrawals /\ Replayed!Reverse(t)
        BY <2>1, <2>2, <3>2, <3>3, <4>2
        DEF NeedsRefund, CommittedStatus, Replayed!Withdrawals, Replayed!Reverse,
            Replayed!Become, Replayed!Add
      <4> QED BY <4>3
    <3>4. CASE ~ NeedsRefund(j)
      <4>1. balance' = balance
        BY <1>1, <2>4, <3>4
      <4>2. CASE txStatus[t] = "PENDING"
        <5>1. OutcomeOf(j) = "success"
          BY <1>4, <2>1, <3>1, <3>4, <4>2 DEF NeedsRefund, Settles
        <5>2. t \in Replayed!Withdrawals /\ Replayed!Succeed(t)
          BY <2>1, <2>2, <3>1, <3>2, <4>1, <4>2, <5>1
          DEF CommittedStatus, Replayed!Withdrawals, Replayed!Succeed, Replayed!Become
        <5> QED BY <5>2
      <4>3. CASE txStatus[t] # "PENDING"
        <5>1. \/ /\ OutcomeOf(j) = "success" /\ txStatus[t] \in {"FAILED", "REVERSED"}
                 /\ CommittedStatus(j) = "SUCCESS"
              \/ /\ OutcomeOf(j) = "failed" /\ txStatus[t] = "SUCCESS"
                 /\ CommittedStatus(j) = "FAILED"
          BY <1>4, <2>1, <3>1, <3>4, <4>3 DEF AlreadySettled, CommittedStatus, Settles
        <5>2. UNCHANGED {payload[e].subject : e \in credited}
          BY <1>1, <2>2
        <5>3. Replayed!Contradict(t)
          BY <2>2, <3>2, <4>1, <5>1, <5>2 DEF Replayed!Contradict, Replayed!Become
        <5> QED BY <2>1, <5>3
      <4> QED BY <4>2, <4>3
    <3> QED BY <3>3, <3>4
  <2> QED BY <2>5, <2>6
<1>5. CASE OutcomeOf(j) = "payment"
  <2> DEFINE p == Subject(j)
  <2>1. p \in Payments /\ WalletOf[p] \in Wallets
    BY <1>5, SubjectOfJob
  <2>2. txStatus' = txStatus
    <3>1. \A t \in Transactions : owner[t] # Inner(j)
      BY <1>2, <1>5, <2>1, IdsAssumption DEF Needs, Settles
    <3> QED BY <1>1, <3>1
  <2>3. \A w \in Wallets : owner[w] = Inner(j) => w = WalletOf[p] /\ linking[j] = j.event
    BY <1>2, <1>5 DEF Needs, Settles
  <2>4. linking[j] = j.event =>
          (j.event \notin credited <=> owner[WalletOf[p]] = Inner(j))
    BY <1>5 DEF LocksAreOwn
  <2>5. CASE linking[j] = j.event /\ j.event \notin credited
    <3>1. \A w \in Wallets : owner[w] = Inner(j) <=> w = WalletOf[p]
      BY <2>1, <2>3, <2>4, <2>5
    <3>2. balance' = [balance EXCEPT ![WalletOf[p]] = @ + AmountOf[p]]
      BY <1>1, <2>1, <3>1
    <3>3. ExistingRows(j) = {}
      BY <2>5 DEF CreditsAreNew
    <3>4. /\ p \notin {payload[e].subject : e \in credited}
          /\ {payload[e].subject : e \in credited}' =
               {payload[e].subject : e \in credited} \cup {p}
      BY <1>1, <2>5, <3>3 DEF ExistingRows, Subject
    <3>5. Replayed!CreditPayment(j.event, p)
      BY <1>1, <2>2, <2>5, <3>2 DEF Replayed!CreditPayment, Replayed!Add
    <3> QED BY <2>1, <3>4, <3>5 DEF Replayed!CreditOnce
  <2>6. CASE ~ (linking[j] = j.event /\ j.event \notin credited)
    <3>1. \A w \in Wallets : owner[w] # Inner(j)
      BY <2>1, <2>3, <2>4, <2>6
    <3> QED BY <1>1, <2>2, <2>6, <3>1
  <2> QED BY <2>5, <2>6
<1>6. CASE OutcomeOf(j) = "ignored"
  <2>1. linking[j] = NoRow
    BY <1>6 DEF ReadsAreCurrent
  <2>2. \A row \in Rows : owner[row] # Inner(j)
    BY <1>2, <1>6 DEF Needs, Settles
  <2>3. balance' = balance /\ txStatus' = txStatus
    BY <1>1, <1>2, <2>2
  <2> QED BY <1>1, <1>2, <2>1, <2>3
<1> QED BY <1>3, <1>4, <1>5, <1>6, SubjectOfJob DEF Settles

LEMMA CommitReplays ==
  ASSUME RInv, NEW t \in Transactions, CommitWithdrawal(t)
  PROVE  t \in Replayed!Withdrawals /\ Replayed!Withdraw(t)
<1>1. TypeOf[t] = "WITHDRAWAL"
  BY DEF CommitWithdrawal, RInv, OnlyWithdrawalsPend
<1>2. balance' = [balance EXCEPT ![WalletOf[t]] = @ + (-AmountOf[t])]
  BY WalletOfAssumption, AmountOfAssumption DEF CommitWithdrawal, RInv, JInv, TypeOK
<1> QED BY <1>1, <1>2 DEF CommitWithdrawal, Replayed!Withdrawals, Replayed!Withdraw,
                          Replayed!Become, Replayed!Add

(***************************************************************************)
(* One worker implements ReplayedSettlement, whatever is retried and       *)
(* replayed: processSuccessfulTransaction and processFailedTransaction     *)
(* move money once for a withdrawal, in the step in which it leaves        *)
(* PENDING; processVirtualAccountDeposit once for a payment; and the       *)
(* status that contradicts an earlier one moves none.                      *)
(***************************************************************************)
THEOREM ReplayRefinement ==
  ASSUME SingleWorker
  PROVE  Spec => ImplementsReplayedSettlement
<1>1. Init => Replayed!InitRecorded
  BY InitialBalanceAssumption DEF Init, Replayed!InitRecorded, Replayed!Init
<1>2. ASSUME RInv, [Next]_vars
      PROVE  [Replayed!NextRecorded]_(Replayed!allVars)
  <2>1. payload' = payload
    BY <1>2, SingleSteps DEF RInv
  <2> DEFINE recorded == {payload[e].subject : e \in credited}
  <2>2. credited' = credited => UNCHANGED recorded
    BY <2>1
  <2>3. CASE UNCHANGED <<txStatus, balance, credited>>
    BY <2>2, <2>3 DEF Replayed!allVars, Replayed!vars
  <2>4. ASSUME NEW t \in Transactions, CommitWithdrawal(t)
        PROVE  Replayed!NextRecorded
    <3>1. t \in Replayed!Withdrawals /\ Replayed!Withdraw(t)
      BY <1>2, <2>4, CommitReplays
    <3>2. UNCHANGED recorded
      BY <2>2, <3>1 DEF Replayed!Withdraw
    <3> QED BY <3>1, <3>2 DEF Replayed!NextRecorded
  <2>5. ASSUME NEW j \in Jobs, at[j] = "mark", MarksEvent(j)
        PROVE  Replayed!NextRecorded \/ UNCHANGED <<txStatus, balance, credited>>
    <3>1. ASSUME NEW t \in Replayed!Withdrawals, Replayed!Succeed(t) \/ Replayed!Reverse(t)
          PROVE  Replayed!NextRecorded
      <4>1. UNCHANGED recorded
        BY <2>2, <3>1 DEF Replayed!Succeed, Replayed!Reverse
      <4> QED BY <3>1, <4>1 DEF Replayed!NextRecorded
    <3>2. CASE Subject(j) \in Transactions /\ Replayed!Contradict(Subject(j))
      BY <3>2 DEF Replayed!NextRecorded
    <3>3. CASE Subject(j) \in Payments /\ Replayed!CreditOnce(j.event, Subject(j))
      <4>1. \E e \in Events, p \in Payments : Replayed!CreditOnce(e, p)
        BY <3>3, JobFields DEF Replayed!CreditOnce
      <4> QED BY <4>1 DEF Replayed!NextRecorded
    <3> QED BY <1>2, <2>5, <3>1, <3>2, <3>3, MarkReplays
  <2> QED BY <1>2, <2>3, <2>4, <2>5, MoneySteps DEF RInv
<1> QED
  BY <1>1, <1>2, SingleWorkerInvariance, PTL
  DEF Spec, ImplementsReplayedSettlement, Replayed!SpecRecorded

-----------------------------------------------------------------------------
(***************************************************************************)
(* A refund gives back a debit that is missing: it is of a withdrawal that *)
(* was PENDING when it was read, and is so still.                          *)
(***************************************************************************)
LEMMA RefundStep ==
  ASSUME IsFiniteSet(Transactions), RInv, RInv', [Next]_vars,
         CreditsArePayments, PendingDebitsAreMissing
  PROVE  CreditsArePayments' /\ PendingDebitsAreMissing'
<1> DEFINE f == [t \in Transactions |-> Outstanding(t)]
           e == [t \in Transactions |-> Outstanding(t)']
           Sums(g, w) == SumFunctionOnSet(g, TransactionsOf(w))
           Bounded(w) == balance'[w] <= OpeningBalance(w) + Sums(e, w) + PaymentsCredited(w)'
<1> USE DEF RInv, JInv, TypeOK
<1>1. f \in [Transactions -> Int] /\ e \in [Transactions -> Int]
  BY AmountOfAssumption DEF Outstanding
<1>2. ASSUME NEW w \in Wallets
      PROVE  /\ balance[w] \in Int /\ OpeningBalance(w) \in Int
             /\ PaymentsCredited(w) \in Int
             /\ balance[w] <= OpeningBalance(w) + Sums(f, w) + PaymentsCredited(w)
  BY StatementTypes, PaymentsType DEF PendingDebitsAreMissing
<1>3. payload' = payload
  BY SingleSteps
<1>4. SUFFICES CreditsArePayments' /\ \A w \in Wallets : Bounded(w)
  <2>1. \A w : OpeningBalance(w)' = OpeningBalance(w) /\ TransactionsOf(w)' = TransactionsOf(w)
    BY DEF OpeningBalance, TransactionsOf, SignedAtFirst
  <2> QED BY <2>1 DEF PendingDebitsAreMissing
<1>5. ASSUME credited' = credited,
             NEW t \in Transactions,
             \A x \in Transactions \ {t} : txStatus'[x] = txStatus[x],
             NEW w \in Wallets,
             balance'[w] - balance[w] <= IF WalletOf[t] = w THEN e[t] - f[t] ELSE 0
      PROVE  Bounded(w)
  <2>1. \A x \in Transactions \ {t} : e[x] = f[x]
    BY <1>5 DEF Outstanding
  <2>2. balance'[w] \in Int /\ e[t] \in Int /\ f[t] \in Int
    BY <1>1
  <2> HIDE DEF e, f
  <2>3. /\ Sums(f, w) \in Int
        /\ Sums(e, w) = Sums(f, w) + (IF WalletOf[t] = w THEN e[t] - f[t] ELSE 0)
    <3> HIDE DEF RInv, JInv, TypeOK
    <3> QED BY <1>1, <2>1, OneTransactionChanges
  <2>4. PaymentsCredited(w)' = PaymentsCredited(w)
    BY <1>3, <1>5, SamePayments
  <2> QED BY <1>2, <1>5, <2>2, <2>3, <2>4
<1>6. ASSUME NEW t \in Transactions, CommitWithdrawal(t)
      PROVE  CreditsArePayments' /\ \A w \in Wallets : Bounded(w)
  <2>1. /\ credited' = credited /\ WalletOf[t] \in Wallets
        /\ AmountOf[t] \in Nat
        /\ \A x \in Transactions \ {t} : txStatus'[x] = txStatus[x]
        /\ txStatus[t] = "absent" /\ txStatus'[t] = "PENDING"
    BY <1>6, WalletOfAssumption, AmountOfAssumption DEF CommitWithdrawal
  <2>2. \A w \in Wallets :
          balance'[w] - balance[w] <= IF WalletOf[t] = w THEN e[t] - f[t] ELSE 0
    BY <1>6, <2>1 DEF CommitWithdrawal, Outstanding
  <2>3. CreditsArePayments'
    BY <1>3, <2>1 DEF CreditsArePayments
  <2> QED BY <1>5, <2>1, <2>2, <2>3
<1>7. ASSUME UNCHANGED txStatus, NEW w \in Wallets
      PROVE  Sums(f, w) \in Int /\ Sums(e, w) = Sums(f, w)
  <2>1. e = f
    BY <1>7 DEF Outstanding
  <2>2. IsFiniteSet(TransactionsOf(w)) /\ \A t \in TransactionsOf(w) : f[t] \in Int
    BY <1>1, FS_Subset DEF TransactionsOf
  <2> HIDE DEF e, f
  <2> QED BY <2>1, <2>2, SumIsInteger
<1>8. ASSUME UNCHANGED <<txStatus, balance, credited>>
      PROVE  CreditsArePayments' /\ \A w \in Wallets : Bounded(w)
  <2>1. CreditsArePayments'
    BY <1>3, <1>8 DEF CreditsArePayments
  <2> HIDE DEF e, f
  <2>2. ASSUME NEW w \in Wallets PROVE Bounded(w)
    BY <1>2, <1>3, <1>7, <1>8, SamePayments
  <2> QED BY <2>1, <2>2
<1>9. ASSUME NEW j \in Jobs, Subject(j) \in Payments, txStatus' = txStatus,
             j.event \notin credited, credited' = credited \cup {j.event},
             balance' = [balance EXCEPT ![WalletOf[Subject(j)]] = @ + AmountOf[Subject(j)]]
      PROVE  CreditsArePayments' /\ \A w \in Wallets : Bounded(w)
  <2>1. /\ AmountOf[Subject(j)] \in Nat /\ WalletOf[Subject(j)] \in Wallets
        /\ AmountCredited(j.event) = AmountOf[Subject(j)]
        /\ payload[j.event].subject = Subject(j)
    BY <1>9, AmountOfAssumption, WalletOfAssumption DEF AmountCredited, Subject
  <2>2. ASSUME NEW w \in Wallets
        PROVE  balance'[w] - balance[w] <=
                 IF WalletOf[Subject(j)] = w THEN AmountOf[Subject(j)] ELSE 0
    BY <1>9, <2>1
  <2> HIDE DEF e, f
  <2>3. ASSUME NEW w \in Wallets
        PROVE  /\ CreditsArePayments'
               /\ PaymentsCredited(w)' = PaymentsCredited(w)
                    + (IF WalletOf[Subject(j)] = w THEN AmountOf[Subject(j)] ELSE 0)
    BY <1>3, <1>9, <2>1, OnePaymentMore
  <2>4. ASSUME NEW w \in Wallets PROVE Bounded(w)
    <3>1. balance'[w] \in Int
      OBVIOUS
    <3> QED BY <1>2, <1>7, <1>9, <2>1, <2>2, <2>3, <3>1
  <2> QED BY <2>1, <2>3, <2>4
<1>10. ASSUME NEW t \in Transactions,
              \/ TypeOf[t] = "WITHDRAWAL" /\ (Replayed!Succeed(t) \/ Replayed!Reverse(t))
              \/ Replayed!Contradict(t)
       PROVE  CreditsArePayments' /\ \A w \in Wallets : Bounded(w)
  <2>1. /\ WalletOf[t] \in Wallets /\ AmountOf[t] \in Nat
        /\ TypeOf[t] \in {"DEPOSIT", "WITHDRAWAL"}
    BY WalletOfAssumption, AmountOfAssumption, TypeOfAssumption
  <2>2. /\ credited' = credited
        /\ \A x \in Transactions \ {t} : txStatus'[x] = txStatus[x]
        /\ \/ /\ balance' = balance /\ txStatus'[t] # "PENDING"
           \/ /\ TypeOf[t] = "WITHDRAWAL" /\ txStatus[t] = "PENDING"
              /\ txStatus'[t] # "PENDING"
              /\ balance' = [balance EXCEPT ![WalletOf[t]] = @ + AmountOf[t]]
    BY <1>10 DEF Replayed!Succeed, Replayed!Reverse, Replayed!Contradict,
                 Replayed!Become, Replayed!Add
  <2>3. \A w \in Wallets :
          balance'[w] - balance[w] <= IF WalletOf[t] = w THEN e[t] - f[t] ELSE 0
    BY <2>1, <2>2 DEF Outstanding
  <2>4. CreditsArePayments'
    BY <1>3, <2>2 DEF CreditsArePayments
  <2> QED BY <1>5, <2>2, <2>3, <2>4
<1>11. ASSUME NEW j \in Jobs, at[j] = "mark", MarksEvent(j)
       PROVE  CreditsArePayments' /\ \A w \in Wallets : Bounded(w)
  <2>1. CASE Subject(j) \in Payments /\ Replayed!CreditOnce(j.event, Subject(j))
    BY <1>9, <2>1 DEF Replayed!CreditOnce, Replayed!CreditPayment, Replayed!Add
  <2>2. ASSUME NEW t \in Replayed!Withdrawals, Replayed!Succeed(t) \/ Replayed!Reverse(t)
        PROVE  CreditsArePayments' /\ \A w \in Wallets : Bounded(w)
    BY <1>10, <2>2 DEF Replayed!Withdrawals
  <2> QED BY <1>8, <1>10, <1>11, <2>1, <2>2, MarkReplays
<1> QED BY <1>6, <1>8, <1>11, MoneySteps

LEMMA RefundInit ==
  ASSUME IsFiniteSet(Transactions), Init
  PROVE  CreditsArePayments /\ PendingDebitsAreMissing
<1>1. CreditsArePayments /\ StatementExplainsBalance
  BY StatementInit
<1>2. TypeOK
  BY JobInit DEF JInv
<1> DEFINE e == [t \in Transactions |-> Outstanding(t)]
<1>3. e \in [Transactions -> Int] /\ \A t \in Transactions : Signed(t) <= e[t]
  BY AmountOfAssumption, TypeOfAssumption, InitialStatusAssumption
  DEF Init, Signed, SignedAs, Outstanding
<1>4. SUFFICES \A w \in Wallets :
                 balance[w] <= OpeningBalance(w) + SumFunctionOnSet(e, TransactionsOf(w))
                                 + PaymentsCredited(w)
  BY <1>1 DEF PendingDebitsAreMissing
<1> HIDE DEF e
<1> QED BY <1>1, <1>2, <1>3, StatementIsBelow

LEMMA RefundInduction ==
  ASSUME SingleWorker, IsFiniteSet(Transactions)
  PROVE  Spec => [](RInv /\ CreditsArePayments /\ PendingDebitsAreMissing)
<1>1. Init => CreditsArePayments /\ PendingDebitsAreMissing
  BY RefundInit
<1>2. /\ RInv /\ RInv' /\ CreditsArePayments /\ PendingDebitsAreMissing /\ [Next]_vars
      => CreditsArePayments' /\ PendingDebitsAreMissing'
  BY RefundStep
<1> QED BY <1>1, <1>2, SingleWorkerInvariance, PTL DEF Spec

(***************************************************************************)
(* With one worker, the debits of all pending withdrawals are missing from *)
(* the balance, whatever is retried or replayed, in any order.             *)
(***************************************************************************)
THEOREM RefundInvariance ==
  ASSUME SingleWorker, IsFiniteSet(Transactions)
  PROVE  Spec => []RefundInv
<1>1. RInv /\ PendingDebitsAreMissing => RefundInv
  BY DEF RefundInv
<1> QED BY <1>1, RefundInduction, PTL

(***************************************************************************)
(* So one worker never refunds a withdrawal twice, however often its       *)
(* failure is reported, retried or replayed: the status it has read in     *)
(* processFailedTransaction is still PENDING when it commits the refund.   *)
(***************************************************************************)
THEOREM RefundsBounded ==
  ASSUME SingleWorker, IsFiniteSet(Transactions)
  PROVE  Spec => []RefundsNeverExceedDebits
<1>1. ASSUME RInv, CreditsArePayments, PendingDebitsAreMissing
      PROVE  RefundsNeverExceedDebits
  <2> DEFINE f == [t \in Transactions |-> Outstanding(t)]
             e == [t \in Transactions |-> Deposited(t)]
  <2>1. /\ f \in [Transactions -> Int] /\ e \in [Transactions -> Int]
        /\ \A t \in Transactions : f[t] <= e[t]
    BY AmountOfAssumption, TypeOfAssumption DEF Outstanding, Deposited
  <2>2. \A w \in Wallets :
          balance[w] <= OpeningBalance(w) + SumFunctionOnSet(f, TransactionsOf(w))
                          + PaymentsCredited(w)
    BY <1>1 DEF PendingDebitsAreMissing
  <2>3. SUFFICES \A w \in Wallets :
                   balance[w] <= OpeningBalance(w) + SumFunctionOnSet(e, TransactionsOf(w))
                                   + PaymentsCredited(w)
    BY DEF RefundsNeverExceedDebits
  <2>4. TypeOK
    BY <1>1 DEF RInv, JInv
  <2> HIDE DEF e, f
  <2> QED BY <1>1, <2>1, <2>2, <2>4, BoundIsMonotone
<1> QED BY <1>1, RefundInduction, PTL
=============================================================================
