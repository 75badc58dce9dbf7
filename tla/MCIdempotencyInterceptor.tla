---------------------- MODULE MCIdempotencyInterceptor ----------------------
(***************************************************************************)
(* Small instances of IdempotencyInterceptor for TLC: three copies of one  *)
(* request, one with a key of its own, and one without the header.         *)
(***************************************************************************)
EXTENDS IdempotencyInterceptor, TLC

CONSTANTS r1, r2, r3, r4, r5, k1, k2

MCKeyOf == r1 :> k1 @@ r2 :> k1 @@ r3 :> k1 @@ r4 :> k2 @@ r5 :> NoKey
=============================================================================
