--------------------------- MODULE MCSessionPreflight ---------------------------
(* Three bindings: b1 and b2 are for the same revision of one correction,  *)
(* b2 with the higher priority; b3, of another correction and for another  *)
(* injector, ties with b1 where both match and gives way to b2.  The two   *)
(* effects carry the same payload, under different bindings and contexts.  *)
(* Only one operation at a time is journalled (there is one key); the      *)
(* other one is an operation that the file may show.                       *)
(*                                                                         *)
(* The same run compares resolve_binding with what it is to find, on every *)
(* table of up to three rows: two corrections, two revisions, two          *)
(* priorities, selectors of which one is narrower than the other two,      *)
(* active or not.  A behaviour fills a table or has sessions, not both.    *)
EXTENDS SessionPreflight, TLC

CONSTANTS b1, b2, b3, c1, c2, l1, l2, p1, p2, t1, v1, v2

Rows == [b \in {b1, b2, b3} |->
    [correction |-> IF b = b3 THEN c2 ELSE c1,
     revision   |-> 1,
     selector   |-> IF b = b3 THEN {l2} ELSE {l1},
     priority   |-> IF b = b2 THEN 1 ELSE 0,
     active     |-> TRUE]]

Payloads == [b \in {b1, b2, b3} |-> IF b = b3 THEN p2 ELSE p1]

EffectFor(b, c, p) == [target |-> t1, binding |-> b, context |-> c, payload |-> p]

Effects == {EffectFor(b1, {l1}, p1), EffectFor(b2, {l1, l2}, p1)}

Contexts == {{l1}, {l1, l2}}

EvidenceRefs == [e \in Effects |-> IF e.binding = b1 THEN v1 ELSE v2]

VARIABLE table       \* the rows a store returns, by id

Row == [correction : {c1, c2}, revision : {1, 2}, selector : {{l1}, {l2}, {l1, l2}},
        priority : {0, 1}, active : BOOLEAN]

TableInit == table = [i \in {} |-> Nobody]

Insert ==
    \E i \in Binding \ DOMAIN table, r \in Row : table' = (i :> r) @@ table

Remove ==
    \E i \in DOMAIN table : table' = [j \in DOMAIN table \ {i} |-> table[j]]

PreflightInit == Init /\ TableInit

PreflightNext ==
    \/ TableInit /\ Next /\ UNCHANGED table
    \/ Init /\ (Insert \/ Remove) /\ UNCHANGED vars

PreflightSpec == PreflightInit /\ [][PreflightNext]_<<vars, table>>

\* Whatever is in the table, the filters of resolve_binding pick the binding that
\* goes before every other one that matches, and pick none where there is no such
\* binding: a tie fails closed, and the order of the rows never matters.
ResolutionIsDetermined ==
    \A c \in SUBSET {l1, l2}, i \in Binding :
        resolve_binding(table, c) = i <=> Governs(table, c, i)

MCSymmetry == Permutations(Op)

=============================================================================
