---------------------- MODULE IdempotencyInterceptorProofs ----------------------
(***************************************************************************)
(* What the interceptor guarantees for every set of requests and keys and  *)
(* every pool size, whatever connections fail and however often the        *)
(* process restarts.  The argument is the inductive invariant IInv: one    *)
(* lemma for each of its conjuncts, one step for each kind of action.      *)
(***************************************************************************)
EXTENDS IdempotencyInterceptor, FiniteSetTheorems, TLAPS

-----------------------------------------------------------------------------
(***************************************************************************)
(* A key is unused or PROCESSED when it is looked up, so that only two of  *)
(* the four branches of the interceptor are ever taken.                    *)
(***************************************************************************)
Replays(r) ==
  /\ status[KeyOf[r]] = "PROCESSED"
  /\ Answer(r, "replayed")
  /\ Outer(r, "kept")
  /\ UNCHANGED service

GoesOn(r) ==
  /\ status[KeyOf[r]] = "absent"
  /\ pc' = [pc EXCEPT ![r] = "insert"]
  /\ UNCHANGED <<outer, service, answer>>

LEMMA KeyStatus ==
  ASSUME IInv, NEW r \in Requests, pc[r] \notin {"idle", "done"}
  PROVE  KeyOf[r] \in Keys /\ status[KeyOf[r]] \in {"absent", "PROCESSED"}
  BY DEF IInv, StepsAreInOrder, PostedIsProcessed

LEMMA LookupCases ==
  ASSUME IInv, NEW r \in Requests, Lookup(r)
  PROVE  /\ pc[r] = "lookup"
         /\ Replays(r) \/ GoesOn(r)
         /\ UNCHANGED <<status, posted, outerClaim, innerClaim>>
<1>1. status[KeyOf[r]] \in {"absent", "PROCESSED"}
  BY KeyStatus DEF Lookup
<1>2. CASE status[KeyOf[r]] = "PROCESSED"
  BY <1>2, Zenon DEF Lookup, Replays
<1>3. CASE status[KeyOf[r]] = "absent"
  BY <1>3, Zenon DEF Lookup, GoesOn
<1> QED BY <1>1, <1>2, <1>3 DEF Lookup

-----------------------------------------------------------------------------
LEMMA TypeStep ==
  ASSUME IInv, [Next]_vars
  PROVE  TypeOK'
<1> USE DEF IInv, TypeOK, Status, InService, Answer, Outer, Service
<1>1. ASSUME NEW r \in Requests, Arrive(r) \/ Connect(r) PROVE TypeOK'
  BY <1>1 DEF Arrive, Connect
<1>2. ASSUME NEW r \in Requests, Lookup(r) \/ Insert(r) PROVE TypeOK'
  <2>1. CASE Lookup(r)
    BY <2>1, LookupCases DEF Replays, GoesOn
  <2>2. CASE Insert(r)
    BY <2>2 DEF Insert
  <2> QED BY <1>2, <2>1, <2>2
<1>3. ASSUME NEW r \in Requests,
             ServiceBegin(r) \/ ServiceFind(r) \/ ServiceClaim(r) \/ ServiceRead(r)
      PROVE  TypeOK'
  BY <1>3 DEF ServiceBegin, ServiceFind, ServiceClaim, ServiceRead
<1>4. ASSUME NEW r \in Requests,
             ServiceReturn(r) \/ CommitUnacknowledged(r) \/ ServiceThrow(r)
      PROVE  TypeOK'
  BY <1>4 DEF ServiceReturn, CommitUnacknowledged, ServiceThrow
<1>5. ASSUME NEW r \in Requests,
             Tap(r) \/ CatchError(r) \/ OuterConnectionLost(r) \/ InnerConnectionLost(r)
      PROVE  TypeOK'
  BY <1>5 DEF Tap, CatchError, OuterConnectionLost, InnerConnectionLost
<1>6. CASE Crash
  BY <1>6 DEF Crash
<1>7. CASE UNCHANGED vars
  BY <1>7 DEF vars
<1> QED BY <1>1, <1>2, <1>3, <1>4, <1>5, <1>6, <1>7 DEF Next, Step, Fault

(***************************************************************************)
(* Where a request can be.                                                 *)
(***************************************************************************)
LEMMA OrderStep ==
  ASSUME IInv, [Next]_vars
  PROVE  StepsAreInOrder'
<1> USE DEF IInv, TypeOK, StepsAreInOrder, InService, Answer, Outer, Service
<1>1. ASSUME NEW r \in Requests, Arrive(r) \/ Connect(r) PROVE StepsAreInOrder'
  BY <1>1, KeyOfAssumption DEF Arrive, Connect
<1>2. ASSUME NEW r \in Requests, Lookup(r) \/ Insert(r) PROVE StepsAreInOrder'
  <2>1. CASE Lookup(r)
    BY <2>1, LookupCases DEF Replays, GoesOn
  <2>2. CASE Insert(r)
    BY <2>2 DEF Insert
  <2> QED BY <1>2, <2>1, <2>2
<1>3. ASSUME NEW r \in Requests,
             ServiceBegin(r) \/ ServiceFind(r) \/ ServiceClaim(r) \/ ServiceRead(r)
      PROVE  StepsAreInOrder'
  BY <1>3 DEF ServiceBegin, ServiceFind, ServiceClaim, ServiceRead
<1>4. ASSUME NEW r \in Requests,
             ServiceReturn(r) \/ CommitUnacknowledged(r) \/ ServiceThrow(r)
      PROVE  StepsAreInOrder'
  BY <1>4 DEF ServiceReturn, CommitUnacknowledged, ServiceThrow
<1>5. ASSUME NEW r \in Requests,
             Tap(r) \/ CatchError(r) \/ OuterConnectionLost(r) \/ InnerConnectionLost(r)
      PROVE  StepsAreInOrder'
  BY <1>5 DEF Tap, CatchError, OuterConnectionLost, InnerConnectionLost
<1>6. CASE Crash
  BY <1>6 DEF Crash
<1>7. CASE UNCHANGED vars
  BY <1>7 DEF vars
<1> QED BY <1>1, <1>2, <1>3, <1>4, <1>5, <1>6, <1>7 DEF Next, Step, Fault

(***************************************************************************)
(* A claim is made on an unused key nobody else has claimed, and is the only *)
(* one until it ends.                                                      *)
(***************************************************************************)
LEMMA ClaimsStep ==
  ASSUME IInv, [Next]_vars
  PROVE  ClaimsAreExclusive'
<1> USE DEF IInv, TypeOK, ClaimsAreExclusive, StepsAreInOrder, InService,
           Answer, Outer, Service
<1>1. ASSUME NEW r \in Requests, Arrive(r) \/ Connect(r) PROVE ClaimsAreExclusive'
  BY <1>1 DEF Arrive, Connect
<1>2. ASSUME NEW r \in Requests, Lookup(r) PROVE ClaimsAreExclusive'
  BY <1>2, LookupCases DEF Replays, GoesOn
<1>3. ASSUME NEW r \in Requests, Insert(r) PROVE ClaimsAreExclusive'
  BY <1>3, KeyStatus DEF Insert
<1>4. ASSUME NEW r \in Requests,
             ServiceBegin(r) \/ ServiceFind(r) \/ ServiceClaim(r) \/ ServiceRead(r)
      PROVE  ClaimsAreExclusive'
  <2>1. CASE ServiceBegin(r) \/ ServiceFind(r) \/ ServiceRead(r)
    BY <2>1 DEF ServiceBegin, ServiceFind, ServiceRead
  <2>2. CASE ServiceClaim(r)
    BY <2>2, KeyStatus DEF ServiceClaim, KeyIsFree
  <2> QED BY <1>4, <2>1, <2>2
<1>5. ASSUME NEW r \in Requests, ServiceReturn(r) \/ CommitUnacknowledged(r)
      PROVE  ClaimsAreExclusive'
  BY <1>5, KeyStatus DEF ServiceReturn, CommitUnacknowledged
<1>6. ASSUME NEW r \in Requests, ServiceThrow(r) \/ InnerConnectionLost(r)
      PROVE  ClaimsAreExclusive'
  BY <1>6 DEF ServiceThrow, InnerConnectionLost
<1>7. ASSUME NEW r \in Requests, Tap(r) \/ CatchError(r) \/ OuterConnectionLost(r)
      PROVE  ClaimsAreExclusive'
  BY <1>7 DEF Tap, CatchError, OuterConnectionLost
<1>8. CASE Crash
  BY <1>8 DEF Crash
<1>9. CASE UNCHANGED vars
  BY <1>9 DEF vars
<1> QED BY <1>1, <1>2, <1>3, <1>4, <1>5, <1>6, <1>7, <1>8, <1>9 DEF Next, Step, Fault

(***************************************************************************)
(* Money moves only under a claim, so on an unused key.                    *)
(***************************************************************************)
LEMMA PostedStep ==
  ASSUME IInv, [Next]_vars
  PROVE  PostedIsProcessed'
<1> USE DEF IInv, TypeOK, ClaimsAreExclusive, PostedIsProcessed, StepsAreInOrder,
           InService, Answer, Outer, Service
<1>1. ASSUME NEW r \in Requests, Arrive(r) \/ Connect(r) PROVE PostedIsProcessed'
  BY <1>1 DEF Arrive, Connect
<1>2. ASSUME NEW r \in Requests, Lookup(r) PROVE PostedIsProcessed'
  BY <1>2, LookupCases DEF Replays, GoesOn
<1>3. ASSUME NEW r \in Requests, Insert(r) PROVE PostedIsProcessed'
  BY <1>3, KeyStatus DEF Insert
<1>4. ASSUME NEW r \in Requests,
             ServiceBegin(r) \/ ServiceFind(r) \/ ServiceClaim(r) \/ ServiceRead(r)
      PROVE  PostedIsProcessed'
  <2>1. CASE ServiceBegin(r) \/ ServiceFind(r) \/ ServiceRead(r)
    BY <2>1 DEF ServiceBegin, ServiceFind, ServiceRead
  <2>2. CASE ServiceClaim(r)
    BY <2>2, KeyStatus DEF ServiceClaim, KeyIsFree
  <2> QED BY <1>4, <2>1, <2>2
<1>5. ASSUME NEW r \in Requests, ServiceReturn(r) \/ CommitUnacknowledged(r)
      PROVE  PostedIsProcessed'
  BY <1>5, KeyStatus DEF ServiceReturn, CommitUnacknowledged
<1>6. ASSUME NEW r \in Requests, ServiceThrow(r) \/ InnerConnectionLost(r)
      PROVE  PostedIsProcessed'
  BY <1>6 DEF ServiceThrow, InnerConnectionLost
<1>7. ASSUME NEW r \in Requests, Tap(r) \/ CatchError(r) \/ OuterConnectionLost(r)
      PROVE  PostedIsProcessed'
  BY <1>7 DEF Tap, CatchError, OuterConnectionLost
<1>8. CASE Crash
  BY <1>8 DEF Crash
<1>9. CASE UNCHANGED vars
  BY <1>9 DEF vars
<1> QED BY <1>1, <1>2, <1>3, <1>4, <1>5, <1>6, <1>7, <1>8, <1>9 DEF Next, Step, Fault

(***************************************************************************)
(* What has moved stays moved, so a refusal stays true.                    *)
(***************************************************************************)
LEMMA RefusalsStep ==
  ASSUME IInv, [Next]_vars
  PROVE  RefusalsFollowPosting'
<1> USE DEF IInv, TypeOK, PostedIsProcessed, StepsAreInOrder,
           RefusalsFollowPosting, InService, Answer, Outer, Service
<1>1. ASSUME NEW r \in Requests, Arrive(r) \/ Connect(r) PROVE RefusalsFollowPosting'
  BY <1>1 DEF Arrive, Connect
<1>2. ASSUME NEW r \in Requests, Lookup(r) PROVE RefusalsFollowPosting'
  BY <1>2, LookupCases DEF Replays, GoesOn
<1>3. ASSUME NEW r \in Requests, Insert(r) PROVE RefusalsFollowPosting'
  BY <1>3, KeyStatus DEF Insert
<1>4. ASSUME NEW r \in Requests,
             ServiceBegin(r) \/ ServiceFind(r) \/ ServiceClaim(r) \/ ServiceRead(r)
      PROVE  RefusalsFollowPosting'
  <2>1. CASE ServiceBegin(r) \/ ServiceFind(r) \/ ServiceRead(r)
    BY <2>1 DEF ServiceBegin, ServiceFind, ServiceRead
  <2>2. CASE ServiceClaim(r)
    BY <2>2, KeyStatus DEF ServiceClaim, KeyIsFree
  <2> QED BY <1>4, <2>1, <2>2
<1>5. ASSUME NEW r \in Requests, ServiceReturn(r) \/ CommitUnacknowledged(r)
      PROVE  RefusalsFollowPosting'
  BY <1>5, KeyStatus DEF ServiceReturn, CommitUnacknowledged
<1>6. ASSUME NEW r \in Requests, ServiceThrow(r) \/ InnerConnectionLost(r)
      PROVE  RefusalsFollowPosting'
  BY <1>6 DEF ServiceThrow, InnerConnectionLost
<1>7. ASSUME NEW r \in Requests, Tap(r) \/ CatchError(r) \/ OuterConnectionLost(r)
      PROVE  RefusalsFollowPosting'
  BY <1>7 DEF Tap, CatchError, OuterConnectionLost
<1>8. CASE Crash
  BY <1>8 DEF Crash
<1>9. CASE UNCHANGED vars
  BY <1>9 DEF vars
<1> QED BY <1>1, <1>2, <1>3, <1>4, <1>5, <1>6, <1>7, <1>8, <1>9 DEF Next, Step, Fault

(***************************************************************************)
(* When tap releases the connection, the insert on it is already undone: else *)
(* the service could not have claimed the key.                             *)
(***************************************************************************)
LEMMA ReleasedStep ==
  ASSUME IInv, [Next]_vars
  PROVE  NothingUncommittedReleased'
<1> USE DEF IInv, TypeOK, ClaimsAreExclusive, StepsAreInOrder,
           NothingUncommittedReleased, InService, Answer, Outer, Service
<1>1. ASSUME NEW r \in Requests, Arrive(r) \/ Connect(r) PROVE NothingUncommittedReleased'
  BY <1>1 DEF Arrive, Connect
<1>2. ASSUME NEW r \in Requests, Lookup(r) PROVE NothingUncommittedReleased'
  BY <1>2, LookupCases DEF Replays, GoesOn
<1>3. ASSUME NEW r \in Requests, Insert(r) PROVE NothingUncommittedReleased'
  BY <1>3, KeyStatus DEF Insert
<1>4. ASSUME NEW r \in Requests,
             ServiceBegin(r) \/ ServiceFind(r) \/ ServiceClaim(r) \/ ServiceRead(r)
      PROVE  NothingUncommittedReleased'
  <2>1. CASE ServiceBegin(r) \/ ServiceFind(r) \/ ServiceRead(r)
    BY <2>1 DEF ServiceBegin, ServiceFind, ServiceRead
  <2>2. CASE ServiceClaim(r)
    BY <2>2, KeyStatus DEF ServiceClaim, KeyIsFree
  <2> QED BY <1>4, <2>1, <2>2
<1>5. ASSUME NEW r \in Requests, ServiceReturn(r) \/ CommitUnacknowledged(r)
      PROVE  NothingUncommittedReleased'
  BY <1>5, KeyStatus DEF ServiceReturn, CommitUnacknowledged
<1>6. ASSUME NEW r \in Requests, ServiceThrow(r) \/ InnerConnectionLost(r)
      PROVE  NothingUncommittedReleased'
  BY <1>6 DEF ServiceThrow, InnerConnectionLost
<1>7. ASSUME NEW r \in Requests, Tap(r) \/ CatchError(r) \/ OuterConnectionLost(r)
      PROVE  NothingUncommittedReleased'
  BY <1>7 DEF Tap, CatchError, OuterConnectionLost
<1>8. CASE Crash
  BY <1>8 DEF Crash
<1>9. CASE UNCHANGED vars
  BY <1>9 DEF vars
<1> QED BY <1>1, <1>2, <1>3, <1>4, <1>5, <1>6, <1>7, <1>8, <1>9 DEF Next, Step, Fault

(***************************************************************************)
(* Only the answer to a used key keeps the connection, and a request cannot *)
(* have used it itself before its look-up.                                 *)
(***************************************************************************)
LEMMA KeptStep ==
  ASSUME IInv, [Next]_vars
  PROVE  OnlyReplaysKeepConnections'
<1> USE DEF IInv, TypeOK, PostedIsProcessed, StepsAreInOrder,
           OnlyReplaysKeepConnections, InService, Answer, Outer, Service
<1>1. ASSUME NEW r \in Requests, Arrive(r) \/ Connect(r) PROVE OnlyReplaysKeepConnections'
  BY <1>1 DEF Arrive, Connect
<1>2. ASSUME NEW r \in Requests, Lookup(r) PROVE OnlyReplaysKeepConnections'
  BY <1>2, LookupCases DEF Replays, GoesOn
<1>3. ASSUME NEW r \in Requests, Insert(r) PROVE OnlyReplaysKeepConnections'
  BY <1>3, KeyStatus DEF Insert
<1>4. ASSUME NEW r \in Requests,
             ServiceBegin(r) \/ ServiceFind(r) \/ ServiceClaim(r) \/ ServiceRead(r)
      PROVE  OnlyReplaysKeepConnections'
  <2>1. CASE ServiceBegin(r) \/ ServiceFind(r) \/ ServiceRead(r)
    BY <2>1 DEF ServiceBegin, ServiceFind, ServiceRead
  <2>2. CASE ServiceClaim(r)
    BY <2>2, KeyStatus DEF ServiceClaim, KeyIsFree
  <2> QED BY <1>4, <2>1, <2>2
<1>5. ASSUME NEW r \in Requests, ServiceReturn(r) \/ CommitUnacknowledged(r)
      PROVE  OnlyReplaysKeepConnections'
  BY <1>5, KeyStatus DEF ServiceReturn, CommitUnacknowledged
<1>6. ASSUME NEW r \in Requests, ServiceThrow(r) \/ InnerConnectionLost(r)
      PROVE  OnlyReplaysKeepConnections'
  BY <1>6 DEF ServiceThrow, InnerConnectionLost
<1>7. ASSUME NEW r \in Requests, Tap(r) \/ CatchError(r) \/ OuterConnectionLost(r)
      PROVE  OnlyReplaysKeepConnections'
  BY <1>7 DEF Tap, CatchError, OuterConnectionLost
<1>8. CASE Crash
  BY <1>8 DEF Crash
<1>9. CASE UNCHANGED vars
  BY <1>9 DEF vars
<1> QED BY <1>1, <1>2, <1>3, <1>4, <1>5, <1>6, <1>7, <1>8, <1>9 DEF Next, Step, Fault

-----------------------------------------------------------------------------
(***************************************************************************)
(* The invariant holds in every reachable state.                           *)
(***************************************************************************)
THEOREM InterceptorInvariance == Spec => []IInv
<1>1. Init => IInv
  BY DEF Init, IInv, TypeOK, Status, ClaimsAreExclusive, PostedIsProcessed,
         StepsAreInOrder, RefusalsFollowPosting, NothingUncommittedReleased,
         OnlyReplaysKeepConnections
<1>2. IInv /\ [Next]_vars => IInv'
  <2> SUFFICES ASSUME IInv, [Next]_vars PROVE IInv'
    OBVIOUS
  <2> QED BY TypeStep, OrderStep, ClaimsStep, PostedStep, RefusalsStep,
             ReleasedStep, KeptStep DEF IInv
<1> QED BY <1>1, <1>2, PTL DEF Spec

THEOREM InterceptorTypes == Spec => []TypeOK
<1>1. IInv => TypeOK
  BY DEF IInv
<1> QED BY <1>1, InterceptorInvariance, PTL

(***************************************************************************)
(* Whatever connections fail and however often the process restarts, the   *)
(* requests with one key move money at most once, and its row says so.     *)
(***************************************************************************)
THEOREM PostedOnce == Spec => []KeyPostedOnce
<1>1. ASSUME IInv PROVE KeyPostedOnce
  <2> SUFFICES ASSUME NEW k \in Keys
               PROVE  LET done == {r \in posted : KeyOf[r] = k}
                      IN  /\ Cardinality(done) <= 1
                          /\ status[k] = "PROCESSED" <=> done # {}
    BY DEF KeyPostedOnce
  <2> DEFINE done == {r \in posted : KeyOf[r] = k}
  <2>1. \A r, s \in done : r = s
    BY <1>1 DEF IInv, PostedIsProcessed
  <2>2. status[k] = "PROCESSED" <=> done # {}
    BY <1>1 DEF IInv, PostedIsProcessed
  <2>3. Cardinality(done) <= 1
    <3> HIDE DEF done
    <3>1. CASE done = {}
      BY <3>1, FS_EmptySet
    <3>2. CASE done # {}
      <4>1. PICK r : done = {r}
        BY <2>1, <3>2
      <4> QED BY <4>1, FS_Singleton
    <3> QED BY <3>1, <3>2
  <2> QED BY <2>2, <2>3
<1> QED BY <1>1, InterceptorInvariance, PTL

(***************************************************************************)
(* A replay or a conflict is answered only after money has moved.          *)
(***************************************************************************)
THEOREM RefusalsTrue == Spec => []RefusalsFollowPosting
<1>1. IInv => RefusalsFollowPosting
  BY DEF IInv
<1> QED BY <1>1, InterceptorInvariance, PTL

(***************************************************************************)
(* tap's release without a commit or rollback never gives an open          *)
(* transaction back to the pool.                                           *)
(***************************************************************************)
THEOREM ReleasesClean == Spec => []NothingUncommittedReleased
<1>1. IInv => NothingUncommittedReleased
  BY DEF IInv
<1> QED BY <1>1, InterceptorInvariance, PTL

(***************************************************************************)
(* Connections are lost to replays of used keys only.                      *)
(***************************************************************************)
THEOREM ReplaysKeep == Spec => []OnlyReplaysKeepConnections
<1>1. IInv => OnlyReplaysKeepConnections
  BY DEF IInv
<1> QED BY <1>1, InterceptorInvariance, PTL
=============================================================================
