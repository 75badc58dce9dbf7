----------------------- MODULE IdempotencyInterceptor -----------------------
(***************************************************************************)
(* A POST to /transactions as it really arrives: IdempotencyInterceptor    *)
(* opens a transaction of its own on a connection of its own, looks the    *)
(* key up, inserts a PENDING row, and only then calls the handler, which   *)
(* runs TransactionsService in a second transaction on a second            *)
(* connection.                                                             *)
(*                                                                         *)
(* The service is reduced to what the interceptor and the other requests   *)
(* can see of it: its connection, its claim on the key, and its end, which *)
(* is all or nothing (module TransactionsService implements Ledger).       *)
(***************************************************************************)
EXTENDS Integers, FiniteSets

CONSTANTS
  Requests,    \* HTTP requests, each made once
  Keys,        \* values of the idempotency-key header
  NoKey,       \* the header is missing
  KeyOf,       \* the header of each request
  PoolSize     \* connections of the process's pool

ASSUME KeyOfAssumption == KeyOf \in [Requests -> Keys \cup {NoKey}]

VARIABLES
  status,      \* committed status of each key, "absent" without a row
  posted,      \* requests whose service transaction has committed
  pc,          \* where the interceptor is with a request
  outer,       \* the interceptor's connection
  outerClaim,  \* requests whose interceptor has an uncommitted PENDING row
  service,     \* where the service is with a request
  innerClaim,  \* requests whose service has an uncommitted PENDING row
  answer       \* what the client was told

vars == <<status, posted, pc, outer, outerClaim, service, innerClaim, answer>>

Status == {"absent", "PENDING", "PROCESSED", "FAILED"}
InService == {"find", "claim", "read", "work"}

(***************************************************************************)
(* Every connection that was taken from the pool and not given back.       *)
(***************************************************************************)
FreeConnections ==
  PoolSize - Cardinality({r \in Requests : outer[r] # "released"})
           - Cardinality({r \in Requests : service[r] \in InService})

(***************************************************************************)
(* The unique index on the key makes an insert wait for every uncommitted  *)
(* row with that key, whichever connection wrote it.                       *)
(***************************************************************************)
KeyNeedNotBeFree(r) == TRUE         \* mutant: the index is not unique

KeyIsFree(r) ==
  \A s \in outerClaim \cup innerClaim : KeyOf[s] # KeyOf[r]

-----------------------------------------------------------------------------
Init ==
  /\ status = [k \in Keys |-> "absent"]
  /\ posted = {}
  /\ pc = [r \in Requests |-> "idle"]
  /\ outer = [r \in Requests |-> "released"]
  /\ outerClaim = {}
  /\ service = [r \in Requests |-> "off"]
  /\ innerClaim = {}
  /\ answer = [r \in Requests |-> "none"]

Answer(r, what) ==
  /\ answer' = [answer EXCEPT ![r] = what]
  /\ pc' = [pc EXCEPT ![r] = "done"]

Outer(r, state) == outer' = [outer EXCEPT ![r] = state]

Service(r, state) == service' = [service EXCEPT ![r] = state]

(***************************************************************************)
(* The request arrives; without the header it is a 400.                    *)
(***************************************************************************)
Arrive(r) ==
  /\ pc[r] = "idle"
  /\ IF KeyOf[r] = NoKey
       THEN Answer(r, "badRequest")
       ELSE pc' = [pc EXCEPT ![r] = "connect"] /\ UNCHANGED answer
  /\ UNCHANGED <<status, posted, outer, outerClaim, service, innerClaim>>

Connect(r) ==
  /\ pc[r] = "connect"
  /\ FreeConnections > 0
  /\ Outer(r, "open")
  /\ pc' = [pc EXCEPT ![r] = "lookup"]
  /\ UNCHANGED <<status, posted, outerClaim, service, innerClaim, answer>>

(***************************************************************************)
(* A processed key is answered with the stored response, and the           *)
(* connection is kept.  A pending one is rolled back twice: the second     *)
(* rollback throws, which hides the 409 and skips the release.  A failed   *)
(* one goes on to the handler without a row.                               *)
(***************************************************************************)
Lookup(r) ==
  /\ pc[r] = "lookup"
  /\ CASE status[KeyOf[r]] = "PROCESSED" ->
            Answer(r, "replayed") /\ Outer(r, "kept") /\ UNCHANGED service
       [] status[KeyOf[r]] = "PENDING" ->
            Answer(r, "serverError") /\ Outer(r, "kept") /\ UNCHANGED service
       [] status[KeyOf[r]] = "FAILED" ->
            /\ pc' = [pc EXCEPT ![r] = "handle"]
            /\ Service(r, "begin")
            /\ UNCHANGED <<outer, answer>>
       [] status[KeyOf[r]] = "absent" ->
            /\ pc' = [pc EXCEPT ![r] = "insert"]
            /\ UNCHANGED <<outer, service, answer>>
  /\ UNCHANGED <<status, posted, outerClaim, innerClaim>>

Insert(r) ==
  /\ pc[r] = "insert"
  /\ KeyIsFree(r)
  /\ IF status[KeyOf[r]] # "absent"
       THEN /\ Answer(r, "conflict")
            /\ Outer(r, "released")
            /\ UNCHANGED <<outerClaim, service>>
       ELSE /\ outerClaim' = outerClaim \cup {r}
            /\ pc' = [pc EXCEPT ![r] = "handle"]
            /\ Service(r, "begin")
            /\ UNCHANGED <<outer, answer>>
  /\ UNCHANGED <<status, posted, innerClaim>>

-----------------------------------------------------------------------------
(***************************************************************************)
(* The service: begin, find the key, claim it, read the wallet over        *)
(* another connection, and commit everything or nothing.                   *)
(***************************************************************************)
ServiceBegin(r) ==
  /\ service[r] = "begin"
  /\ FreeConnections > 0
  /\ Service(r, "find")
  /\ UNCHANGED <<status, posted, pc, outer, outerClaim, innerClaim, answer>>

ServiceFind(r) ==
  /\ service[r] = "find"
  /\ Service(r, IF status[KeyOf[r]] \in {"PROCESSED", "PENDING"}
                  THEN "threw" ELSE "claim")
  /\ UNCHANGED <<status, posted, pc, outer, outerClaim, innerClaim, answer>>

ServiceClaim(r) ==
  /\ service[r] = "claim"
  /\ KeyIsFree(r)
  /\ IF status[KeyOf[r]] \in {"PROCESSED", "PENDING"}
       THEN Service(r, "threw") /\ UNCHANGED innerClaim
       ELSE Service(r, "read") /\ innerClaim' = innerClaim \cup {r}
  /\ UNCHANGED <<status, posted, pc, outer, outerClaim, answer>>

ServiceRead(r) ==
  /\ service[r] = "read"
  /\ FreeConnections > 0
  /\ Service(r, "work")
  /\ UNCHANGED <<status, posted, pc, outer, outerClaim, innerClaim, answer>>

ServiceReturn(r) ==
  /\ service[r] = "work"
  /\ Service(r, "returned")
  /\ innerClaim' = innerClaim \ {r}
  /\ status' = [status EXCEPT ![KeyOf[r]] = "PROCESSED"]
  /\ posted' = posted \cup {r}
  /\ UNCHANGED <<pc, outer, outerClaim, answer>>

(***************************************************************************)
(* The COMMIT reaches the database, its acknowledgement does not reach the *)
(* service.                                                                *)
(***************************************************************************)
CommitUnacknowledged(r) ==
  /\ service[r] = "work"
  /\ Service(r, "threw")
  /\ innerClaim' = innerClaim \ {r}
  /\ status' = [status EXCEPT ![KeyOf[r]] = "PROCESSED"]
  /\ posted' = posted \cup {r}
  /\ UNCHANGED <<pc, outer, outerClaim, answer>>

ThrowAfterMarking(r) ==             \* mutant: the status is not rolled back
  /\ service[r] = "work"
  /\ Service(r, "threw")
  /\ innerClaim' = innerClaim \ {r}
  /\ status' = [status EXCEPT ![KeyOf[r]] = "PROCESSED"]
  /\ UNCHANGED <<posted, pc, outer, outerClaim, answer>>

ServiceThrow(r) ==
  /\ service[r] = "work"
  /\ Service(r, "threw")
  /\ innerClaim' = innerClaim \ {r}
  /\ UNCHANGED <<status, posted, pc, outer, outerClaim, answer>>

-----------------------------------------------------------------------------
(***************************************************************************)
(* tap releases the connection with whatever is open on it.                *)
(***************************************************************************)
Tap(r) ==
  /\ pc[r] = "handle" /\ service[r] = "returned"
  /\ Answer(r, "created")
  /\ Outer(r, "released")
  /\ Service(r, "off")
  /\ UNCHANGED <<status, posted, outerClaim, innerClaim>>

(***************************************************************************)
(* catchError rolls back and releases, but its selector is async: the      *)
(* error comes back as a value, and the client gets a 201 with an empty    *)
(* body.                                                                   *)
(***************************************************************************)
ReleaseWithoutRollback(r) ==        \* mutant: the rollback is missing
  /\ pc[r] = "handle" /\ service[r] = "threw"
  /\ Answer(r, "created")
  /\ Outer(r, "released")
  /\ Service(r, "off")
  /\ UNCHANGED <<status, posted, outerClaim, innerClaim>>

RollbackWithoutRelease(r) ==        \* mutant: the release is missing
  /\ pc[r] = "handle" /\ service[r] = "threw"
  /\ Answer(r, "created")
  /\ outerClaim' = outerClaim \ {r}
  /\ Service(r, "off")
  /\ UNCHANGED <<status, posted, outer, innerClaim>>

CatchError(r) ==
  /\ pc[r] = "handle" /\ service[r] = "threw"
  /\ Answer(r, "created")
  /\ Outer(r, "released")
  /\ outerClaim' = outerClaim \ {r}
  /\ Service(r, "off")
  /\ UNCHANGED <<status, posted, innerClaim>>

-----------------------------------------------------------------------------
(***************************************************************************)
(* The database, or the network, drops one of the two connections.  The    *)
(* query runner notices and releases itself; an open statement throws.     *)
(***************************************************************************)
OuterConnectionLost(r) ==
  /\ outer[r] = "open"
  /\ Outer(r, "released")
  /\ outerClaim' = outerClaim \ {r}
  /\ IF pc[r] \in {"lookup", "insert"}
       THEN Answer(r, "serverError")
       ELSE UNCHANGED <<pc, answer>>
  /\ UNCHANGED <<status, posted, service, innerClaim>>

InnerConnectionLost(r) ==
  /\ service[r] \in InService
  /\ Service(r, "threw")
  /\ innerClaim' = innerClaim \ {r}
  /\ UNCHANGED <<status, posted, pc, outer, outerClaim, answer>>

(***************************************************************************)
(* The process restarts with a new pool; the clients still waiting lose    *)
(* their connections.                                                      *)
(***************************************************************************)
Crash ==
  /\ \E r \in Requests : pc[r] \notin {"idle", "done"} \/ outer[r] # "released"
  /\ pc' = [r \in Requests |-> IF pc[r] = "idle" THEN "idle" ELSE "done"]
  /\ answer' = [r \in Requests |->
                  IF pc[r] \in {"idle", "done"} THEN answer[r] ELSE "lost"]
  /\ outer' = [r \in Requests |-> "released"]
  /\ service' = [r \in Requests |-> "off"]
  /\ outerClaim' = {}
  /\ innerClaim' = {}
  /\ UNCHANGED <<status, posted>>

Step(r) ==
  \/ Connect(r)
  \/ Lookup(r)
  \/ Insert(r)
  \/ ServiceBegin(r)
  \/ ServiceFind(r)
  \/ ServiceClaim(r)
  \/ ServiceRead(r)
  \/ ServiceReturn(r)
  \/ ServiceThrow(r)
  \/ Tap(r)
  \/ CatchError(r)

Fault(r) ==
  \/ OuterConnectionLost(r)
  \/ InnerConnectionLost(r)
  \/ CommitUnacknowledged(r)

NextWithoutFaults == \E r \in Requests : Arrive(r) \/ Step(r)

Next ==
  \/ \E r \in Requests : Arrive(r) \/ Step(r) \/ Fault(r)
  \/ Crash

Spec == Init /\ [][Next]_vars

(***************************************************************************)
(* On a database and a network that never fail, every request that can go  *)
(* on does.                                                                *)
(***************************************************************************)
FairSpec ==
  /\ Init
  /\ [][NextWithoutFaults]_vars
  /\ \A r \in Requests : WF_vars(Step(r))

-----------------------------------------------------------------------------
(***************************************************************************)
(* Every variable stays within its values.                                 *)
(***************************************************************************)
TypeOK ==
  /\ status \in [Keys -> Status]
  /\ posted \subseteq Requests
  /\ pc \in [Requests -> {"idle", "connect", "lookup", "insert", "handle", "done"}]
  /\ outer \in [Requests -> {"released", "open", "kept"}]
  /\ outerClaim \subseteq Requests
  /\ service \in [Requests -> {"off", "begin", "returned", "threw"} \cup InService]
  /\ innerClaim \subseteq Requests
  /\ answer \in [Requests -> {"none", "created", "replayed", "conflict",
                              "badRequest", "serverError", "lost"}]

(***************************************************************************)
(* Whatever connections fail and however often the process restarts, the   *)
(* requests with one key move money at most once, and the row of a key     *)
(* says PROCESSED exactly when one has.                                    *)
(***************************************************************************)
KeyPostedOnce ==
  \A k \in Keys :
    LET done == {r \in posted : KeyOf[r] = k}
    IN  /\ Cardinality(done) <= 1
        /\ status[k] = "PROCESSED" <=> done # {}

(***************************************************************************)
(* A stored response, and a conflict, are given only for a key whose money *)
(* has moved: neither hides a request that may still be needed.            *)
(***************************************************************************)
RefusalsFollowPosting ==
  \A r \in Requests :
    answer[r] \in {"replayed", "conflict"} => \E s \in posted : KeyOf[s] = KeyOf[r]

(***************************************************************************)
(* tap gives the connection back without ending its transaction.  No row   *)
(* the interceptor has not committed goes back into the pool with it, to   *)
(* be committed or kept locked by the next user of the connection.         *)
(***************************************************************************)
NothingUncommittedReleased ==
  \A r \in outerClaim : outer[r] = "open" /\ pc[r] = "handle"

(***************************************************************************)
(* A request that is over keeps a connection only if another one with its  *)
(* key has moved money: the pool loses connections to replays, and never   *)
(* to a first request, whatever becomes of it.                             *)
(***************************************************************************)
OnlyReplaysKeepConnections ==
  \A r \in Requests :
    pc[r] = "done" /\ outer[r] # "released" =>
      \E s \in posted \ {r} : KeyOf[s] = KeyOf[r]

(***************************************************************************)
(* Why: the invariant the proofs are by induction on.  A service at work   *)
(* has the only claim on its key, made when the key was unused, and none   *)
(* of its interceptor's; no row but a PROCESSED one is ever committed; a   *)
(* connection is open only while the interceptor needs it.                 *)
(***************************************************************************)
ClaimsAreExclusive ==
  /\ innerClaim = {r \in Requests : service[r] \in {"read", "work"}}
  /\ \A r \in innerClaim : status[KeyOf[r]] = "absent"
  /\ \A r, s \in innerClaim : KeyOf[r] = KeyOf[s] => r = s
  /\ \A r \in outerClaim :
       service[r] \notin {"read", "work", "returned"}

PostedIsProcessed ==
  /\ \A k \in Keys : /\ status[k] \in {"absent", "PROCESSED"}
                     /\ status[k] = "PROCESSED" <=> \E r \in posted : KeyOf[r] = k
  /\ \A r, s \in posted : KeyOf[r] = KeyOf[s] => r = s

StepsAreInOrder ==
  \A r \in Requests :
    /\ pc[r] \notin {"idle", "done"} => KeyOf[r] \in Keys
    /\ service[r] # "off" => pc[r] = "handle"
    /\ r \in posted => pc[r] \in {"handle", "done"}
    /\ pc[r] \in {"lookup", "insert"} => outer[r] = "open"
    /\ outer[r] = "open" => pc[r] \in {"lookup", "insert", "handle"}
    /\ outer[r] = "kept" => pc[r] = "done"

IInv ==
  /\ TypeOK
  /\ ClaimsAreExclusive
  /\ PostedIsProcessed
  /\ StepsAreInOrder
  /\ RefusalsFollowPosting
  /\ NothingUncommittedReleased
  /\ OnlyReplaysKeepConnections

(***************************************************************************)
(* transactions.controller.ts: the answer to an operation is a 201, 400,   *)
(* 401 or 409.  So there is one.                                           *)
(***************************************************************************)
EveryRequestAnswered ==
  \A r \in Requests : pc[r] = "connect" ~> answer[r] # "none"
=============================================================================
