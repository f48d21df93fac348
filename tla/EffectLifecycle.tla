--------------------------- MODULE EffectLifecycle ---------------------------
(***************************************************************************)
(* What the operation journal promises about one effect operation, apart   *)
(* from how either journal stores it:                                      *)
(*                                                                         *)
(*   PREPARED -> ATTEMPTED -> VERIFIED | FAILED | AMBIGUOUS                *)
(*                                                                         *)
(* (README.md:27).  AMBIGUOUS may still be settled by a readback, VERIFIED *)
(* and FAILED are terminal, and an outcome exists only for a VERIFIED      *)
(* operation, once.                                                        *)
(***************************************************************************)
CONSTANT Op          \* operation ids

VARIABLES status,    \* status[o]: the lifecycle state of operation o
          observed   \* the operations with a durable outcome observation

lifecycleVars == <<status, observed>>

\* enum OperationState, and "ABSENT" for an id no prepare has returned yet.
LifecycleState ==
    {"ABSENT", "PREPARED", "ATTEMPTED", "AMBIGUOUS", "VERIFIED", "FAILED"}

\* The edges of the documented lifecycle.
LifecycleEdge ==
    { <<"ABSENT", "PREPARED">>, <<"PREPARED", "ATTEMPTED">>,
      <<"ATTEMPTED", "AMBIGUOUS">>, <<"ATTEMPTED", "VERIFIED">>,
      <<"ATTEMPTED", "FAILED">>, <<"AMBIGUOUS", "VERIFIED">>,
      <<"AMBIGUOUS", "FAILED">> }

LifecycleInit ==
    /\ status = [o \in Op |-> "ABSENT"]
    /\ observed = {}

\* One operation takes one edge.
Advance(o) ==
    \E s \in LifecycleState :
        /\ <<status[o], s>> \in LifecycleEdge
        /\ status' = [status EXCEPT ![o] = s]
        /\ UNCHANGED observed

\* The outcome of a verified operation becomes durable.
Observe(o) ==
    /\ status[o] = "VERIFIED"
    /\ o \notin observed
    /\ observed' = observed \cup {o}
    /\ UNCHANGED status

LifecycleNext == \E o \in Op : Advance(o) \/ Observe(o)

LifecycleSpec == LifecycleInit /\ [][LifecycleNext]_lifecycleVars
=============================================================================
