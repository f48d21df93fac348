------------------------------ MODULE BindingView ------------------------------
(***************************************************************************)
(* What the authority tables promise about the bindings in the view        *)
(* active_injection_bindings, apart from how they decide it: a binding     *)
(* enters the view when it is created, and once it has left, for whatever  *)
(* reason, it never returns.  One transaction may take out several at once *)
(* (a revocation, a supersession, a new revision, the clock).              *)
(*                                                                         *)
(* CorrectionAuthority implements it; SessionPreflight reads through it.   *)
(***************************************************************************)
CONSTANT Binding        \* binding ids (never reused)

VARIABLE standing       \* standing[b]: "absent", "live" or "dark"

Live == {b \in Binding : standing[b] = "live"}

BindingViewInit == standing = [b \in Binding |-> "absent"]

\* A binding is created, and is in the view; or never was, because it expired
\* while the call that created it waited for its locks.
Bind(b) ==
    /\ standing[b] = "absent"
    /\ \E s \in {"live", "dark"} : standing' = [standing EXCEPT ![b] = s]

\* The bindings in S leave the view.
Darken(S) ==
    /\ S # {}
    /\ S \subseteq Live
    /\ standing' = [b \in Binding |-> IF b \in S THEN "dark" ELSE standing[b]]

BindingViewNext ==
    \/ \E b \in Binding : Bind(b)
    \/ \E S \in SUBSET Live : Darken(S)

BindingViewSpec == BindingViewInit /\ [][BindingViewNext]_standing
=============================================================================
