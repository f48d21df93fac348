--------------------------- MODULE BindingResolution ---------------------------
(***************************************************************************)
(* resolve_binding (bindings.py): which of the bindings that match a       *)
(* context governs it, or that none does, or that the choice is not        *)
(* determined and the call fails closed.                                   *)
(*                                                                         *)
(* The bindings are a function `rows` from some index set, the positions   *)
(* of the tuple the code is given or the ids of the table's rows.          *)
(***************************************************************************)
EXTENDS Integers, FiniteSets

CONSTANTS Correction,    \* correction ids
          Label,         \* key/value pairs of a context; a selector is a set
                         \*   of them, and so is a context
          Undecided,     \* BindingConflictError
          Nobody         \* None

Selector == {s \in SUBSET Label : IsFiniteSet(s) /\ s # {}}

\* InjectionBinding, as far as the choice looks at it.
InjectionBinding == [correction : Correction,
                     revision   : Nat \ {0},
                     selector   : Selector,
                     priority   : Int,
                     active     : BOOLEAN]

specificity(r) == Cardinality(r.selector)

matches(r, context) == r.active /\ r.selector \subseteq context

-----------------------------------------------------------------------------
(* The filters of the code, in its order.                                  *)

\* The members of S that have the greatest score.
Greatest(S, score) == {i \in S : \A j \in S : score[j] <= score[i]}

Candidates(rows, context) == {i \in DOMAIN rows : matches(rows[i], context)}

Highest(rows, S) == Greatest(S, [i \in S |-> rows[i].priority])

Narrowest(rows, S) == Greatest(S, [i \in S |-> specificity(rows[i])])

\* The newest revision decides only within one correction.
Newest(rows, S) ==
    IF \A i, j \in S : rows[i].correction = rows[j].correction
    THEN Greatest(S, [i \in S |-> rows[i].revision])
    ELSE S

\* A tie broken by the order in which the rows were read.
first_of_a_tie(rows, context) ==
    LET finalists == Narrowest(rows, Highest(rows, Candidates(rows, context)))
        winners == Newest(rows, finalists)
    IN IF finalists = {} THEN Nobody ELSE CHOOSE i \in winners : TRUE

\* The index of the binding that governs the context, Nobody or Undecided.
resolve_binding(rows, context) ==
    LET finalists == Narrowest(rows, Highest(rows, Candidates(rows, context)))
        winners == Newest(rows, finalists)
    IN IF finalists = {} THEN Nobody
       ELSE IF \E i \in winners : winners = {i} THEN CHOOSE i \in winners : TRUE
       ELSE Undecided

-----------------------------------------------------------------------------
(* What the choice means, without filters.                                 *)

\* Binding r goes before binding s: by priority, then by specificity, then,
\* for one correction only, by revision.
Beats(r, s) ==
    \/ r.priority > s.priority
    \/ r.priority = s.priority /\ specificity(r) > specificity(s)
    \/ /\ r.priority = s.priority /\ specificity(r) = specificity(s)
       /\ r.correction = s.correction
       /\ r.revision > s.revision

\* i governs the context: it matches, and goes before every other that does.
Governs(rows, context, i) ==
    /\ i \in Candidates(rows, context)
    /\ \A j \in Candidates(rows, context) \ {i} : Beats(rows[i], rows[j])
=============================================================================
