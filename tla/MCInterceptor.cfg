\* Three requests, connection failures and restarts; the code may hang, so
\* states without a successor are not errors here.
CONSTANTS
  r1 = r1  r2 = r2  r3 = r3  r4 = r4  r5 = r5
  k1 = k1  k2 = k2
  NoKey = NoKey
  Requests = {r1, r2, r3, r4, r5}
  Keys = {k1, k2}
  KeyOf <- MCKeyOf
  PoolSize = 5
SPECIFICATION Spec
INVARIANTS KeyPostedOnce RefusalsFollowPosting NothingUncommittedReleased
           OnlyReplaysKeepConnections IInv
CHECK_DEADLOCK FALSE
