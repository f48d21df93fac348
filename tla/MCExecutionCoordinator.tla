----------------------- MODULE MCExecutionCoordinator -----------------------
(* SharedEffects: one target and one unprotected binding, so that two      *)
(* payloads overwrite each other and two keys may ask for the same effect. *)
(* GovernedEffects: one effect under an unprotected binding and, under a   *)
(* protected one, an effect with an authority reference and one without.   *)
EXTENDS ExecutionCoordinator, TLC

CONSTANTS t1, b1, b2, x1, v1

SharedEffects ==
    [target : {t1}, binding : {b1}, payload : Payload, authority : {Blank}]

GovernedEffects ==
    { [target |-> t1, binding |-> b1, payload |-> x1, authority |-> Blank],
      [target |-> t1, binding |-> b2, payload |-> x1, authority |-> v1],
      [target |-> t1, binding |-> b2, payload |-> x1, authority |-> Blank] }

\* A bound: the unprotected binding stays in force.
OnlyProtectedLost == Binding \ current \subseteq Protected

MCSymmetry ==
    Permutations(Proc) \cup Permutations(Op) \cup Permutations(Key)
=============================================================================
