---------------------- MODULE MCReferenceFileInjector ----------------------
(* o1 and o3 are two operations with the same effect, under different      *)
(* idempotency keys; o2 has another.                                       *)
EXTENDS ReferenceFileInjector, TLC

CONSTANTS o1, o2, o3, d1, d2

SharedEffect == (o1 :> d1) @@ (o2 :> d2) @@ (o3 :> d1)

MCSymmetry == Permutations(Proc)
=============================================================================
