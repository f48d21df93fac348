------------------------- MODULE BindingResolutionProofs -------------------------
(***************************************************************************)
(* What resolve_binding computes, for every set of rows of any size: the   *)
(* filters of the code find the binding that governs the context.          *)
(***************************************************************************)
EXTENDS BindingResolution, FiniteSetTheorems, TLAPS

LEMMA SpecificityType ==
    ASSUME NEW r \in InjectionBinding
    PROVE  specificity(r) \in Nat
<1>1. IsFiniteSet(r.selector)
  BY DEF InjectionBinding, Selector
<1> QED
  BY <1>1, FS_CardinalityType DEF specificity

\* Three scores, compared one after the other, are one comparison by Beats: who
\* passes the filters before the last one has them in common.
LEMMA FinalistsShareScores ==
    ASSUME NEW D, NEW rows \in [D -> InjectionBinding], NEW context,
           NEW i \in Narrowest(rows, Highest(rows, Candidates(rows, context))),
           NEW j \in Candidates(rows, context)
    PROVE  /\ i \in Candidates(rows, context)
           /\ rows[j].priority <= rows[i].priority
           /\ rows[j].priority = rows[i].priority =>
                 specificity(rows[j]) <= specificity(rows[i])
           /\ j \in Narrowest(rows, Highest(rows, Candidates(rows, context))) <=>
                 /\ rows[j].priority = rows[i].priority
                 /\ specificity(rows[j]) = specificity(rows[i])
<1> DEFINE C == Candidates(rows, context)
           H == Highest(rows, C)
           F == Narrowest(rows, H)
<1>1. C \subseteq D
  BY DEF Candidates
<1>2. \A k \in C : rows[k].priority \in Int /\ specificity(rows[k]) \in Nat
  BY <1>1, SpecificityType DEF InjectionBinding
<1>3. H = {k \in C : \A l \in C : rows[l].priority <= rows[k].priority}
  BY DEF Highest, Greatest
<1>4. F = {k \in H : \A l \in H : specificity(rows[l]) <= specificity(rows[k])}
  BY DEF Narrowest, Greatest
<1> HIDE DEF C, H, F
<1>5. i \in F /\ j \in C
  BY DEF C, H, F
<1>6. i \in C /\ rows[j].priority <= rows[i].priority
  BY <1>3, <1>4, <1>5
<1>7. rows[j].priority = rows[i].priority <=> j \in H
  BY <1>2, <1>3, <1>4, <1>5
<1>8. j \in H => specificity(rows[j]) <= specificity(rows[i])
  BY <1>4, <1>5
<1>9. j \in F <=> j \in H /\ specificity(rows[j]) = specificity(rows[i])
  <2>1. H \subseteq C
    BY <1>3
  <2>2. ASSUME j \in F PROVE j \in H /\ specificity(rows[j]) = specificity(rows[i])
    <3>1. j \in H /\ i \in H
      BY <1>4, <1>5, <2>2
    <3>2. specificity(rows[j]) <= specificity(rows[i])
          /\ specificity(rows[i]) <= specificity(rows[j])
      BY <1>4, <1>5, <2>2, <3>1
    <3> QED
      BY <1>2, <2>1, <3>1, <3>2
  <2>3. ASSUME j \in H, specificity(rows[j]) = specificity(rows[i]) PROVE j \in F
    BY <1>4, <1>5, <2>3
  <2> QED
    BY <2>2, <2>3
<1> QED
  BY <1>5, <1>6, <1>7, <1>8, <1>9 DEF C, H, F

-----------------------------------------------------------------------------
\* The binding that the filters of resolve_binding leave is the one that goes
\* before every other binding that matches.
THEOREM ResolvedGoverns ==
    ASSUME NEW D, NEW rows \in [D -> InjectionBinding], NEW context,
           Nobody \notin D, Undecided \notin D,
           NEW i \in D, resolve_binding(rows, context) = i
    PROVE  Governs(rows, context, i)
<1> DEFINE C == Candidates(rows, context)
           F == Narrowest(rows, Highest(rows, C))
           W == Newest(rows, F)
<1>1. F # {} /\ W = {i}
  BY DEF resolve_binding
<1>2. W \subseteq F
  BY DEF Newest, Greatest
<1>3. i \in F
  BY <1>1, <1>2
<1>4. F \subseteq C /\ C \subseteq D
  BY DEF Candidates, Highest, Narrowest, Greatest
<1>5. ASSUME NEW j \in C \ {i} PROVE Beats(rows[i], rows[j])
  <2>1. /\ rows[j].priority <= rows[i].priority
        /\ rows[j].priority = rows[i].priority =>
              specificity(rows[j]) <= specificity(rows[i])
        /\ j \in F <=> /\ rows[j].priority = rows[i].priority
                       /\ specificity(rows[j]) = specificity(rows[i])
    BY <1>3, FinalistsShareScores
  <2>2. /\ rows[i] \in InjectionBinding /\ rows[j] \in InjectionBinding
        /\ specificity(rows[i]) \in Nat /\ specificity(rows[j]) \in Nat
    BY <1>3, <1>4, SpecificityType
  <2>3. CASE j \in F
    <3>1. W # F
      BY <1>1, <2>3
    <3>2. /\ \A k, l \in F : rows[k].correction = rows[l].correction
          /\ W = {k \in F : \A l \in F : rows[l].revision <= rows[k].revision}
      BY <3>1 DEF Newest, Greatest
    <3>3. rows[i].correction = rows[j].correction
      BY <1>3, <2>3, <3>2
    <3>4. rows[i].revision > rows[j].revision
      <4>1. \A k \in F : rows[k].revision \in Nat
        BY <1>4 DEF InjectionBinding
      <4>2. PICK l \in F : ~(rows[l].revision <= rows[j].revision)
        BY <1>1, <2>3, <3>2
      <4>3. rows[l].revision <= rows[i].revision
        BY <1>1, <3>2
      <4> QED
        BY <1>3, <2>3, <4>1, <4>2, <4>3
    <3> QED
      BY <2>1, <2>3, <3>3, <3>4 DEF Beats
  <2>4. CASE j \notin F
    <3>1. rows[i].priority \in Int /\ rows[j].priority \in Int
      BY <2>2 DEF InjectionBinding
    <3>2. \/ rows[i].priority > rows[j].priority
          \/ /\ rows[i].priority = rows[j].priority
             /\ specificity(rows[i]) > specificity(rows[j])
      <4> DEFINE sp(k) == specificity(rows[k])
      <4>1. sp(i) \in Nat /\ sp(j) \in Nat
        BY <2>2
      <4>2. \/ rows[j].priority # rows[i].priority
            \/ sp(j) # sp(i)
        BY <2>1, <2>4
      <4> HIDE DEF F
      <4> QED
        BY <2>1, <3>1, <4>1, <4>2
    <3> QED
      BY <3>2 DEF Beats
  <2> QED
    BY <2>3, <2>4
<1> QED
  BY <1>3, <1>4, <1>5 DEF Governs

\* If some binding goes before every other that matches, resolve_binding finds it:
\* it neither overlooks it nor reports a conflict.
THEOREM GovernorIsResolved ==
    ASSUME NEW D, NEW rows \in [D -> InjectionBinding], NEW context,
           NEW i \in D, Governs(rows, context, i)
    PROVE  resolve_binding(rows, context) = i
<1> DEFINE C == Candidates(rows, context)
           H == Highest(rows, C)
           F == Narrowest(rows, H)
           W == Newest(rows, F)
<1>1. C \subseteq D /\ i \in C
  BY DEF Candidates, Governs
<1>2. \A k \in C : /\ rows[k] \in InjectionBinding
                   /\ rows[k].priority \in Int /\ rows[k].revision \in Nat
                   /\ specificity(rows[k]) \in Nat
  BY <1>1, SpecificityType DEF InjectionBinding
<1>3. \A k \in C \ {i} : Beats(rows[i], rows[k])
  BY DEF Governs
<1>4. i \in H
  <2>1. \A k \in C : rows[k].priority <= rows[i].priority
    BY <1>1, <1>2, <1>3 DEF Beats
  <2> QED
    BY <1>1, <2>1 DEF Highest, Greatest
<1>5. i \in F
  <2>1. \A k \in H : k \in C /\ rows[i].priority <= rows[k].priority
    BY <1>4, <1>1 DEF Highest, Greatest
  <2>2. \A k \in H : specificity(rows[k]) <= specificity(rows[i])
    BY <1>1, <1>2, <1>3, <2>1 DEF Beats
  <2> QED
    BY <1>4, <2>2 DEF Narrowest, Greatest
<1>6. ASSUME NEW k \in F, k # i
      PROVE  /\ rows[k].correction = rows[i].correction
             /\ rows[i].revision > rows[k].revision
  <2>1. k \in C
    BY DEF Highest, Narrowest, Greatest
  <2>2. rows[k].priority = rows[i].priority /\ specificity(rows[k]) = specificity(rows[i])
    BY <1>5, <2>1, FinalistsShareScores
  <2> QED
    BY <1>1, <1>2, <1>3, <1>6, <2>1, <2>2 DEF Beats
<1>7. F \subseteq C
  BY DEF Highest, Narrowest, Greatest
<1>8. W = {i}
  <2>1. \A k, l \in F : rows[k].correction = rows[l].correction
    BY <1>6
  <2>2. W = {k \in F : \A l \in F : rows[l].revision <= rows[k].revision}
    BY <2>1 DEF Newest, Greatest
  <2>3. \A k \in F : rows[k].revision \in Nat
    BY <1>2, <1>7
  <2> QED
    BY <1>5, <1>6, <2>2, <2>3
<1> QED
  BY <1>5, <1>8 DEF resolve_binding

\* The order of the rows does not matter, nor how they are indexed: with the
\* same rows under other indices, the binding that is resolved is the same row.
THEOREM OrderIsIrrelevant ==
    ASSUME NEW D, NEW rows \in [D -> InjectionBinding], NEW context,
           NEW E, NEW pos \in [E -> D],
           \A d \in D : \E e \in E : pos[e] = d,
           \A e, f \in E : pos[e] = pos[f] => e = f,
           Nobody \notin D, Undecided \notin D,
           NEW e \in E, resolve_binding(rows, context) = pos[e]
    PROVE  resolve_binding([x \in E |-> rows[pos[x]]], context) = e
<1> DEFINE moved == [x \in E |-> rows[pos[x]]]
<1>1. Governs(rows, context, pos[e])
  BY ResolvedGoverns
<1>2. moved \in [E -> InjectionBinding]
  OBVIOUS
<1>3. Governs(moved, context, e)
  <2>1. \A x \in E : x \in Candidates(moved, context) <=> pos[x] \in Candidates(rows, context)
    BY DEF Candidates
  <2>2. Candidates(moved, context) \subseteq E
    BY DEF Candidates
  <2> QED
    BY <1>1, <2>1, <2>2 DEF Governs
<1> HIDE DEF moved
<1>4. resolve_binding(moved, context) = e
  BY <1>2, <1>3, GovernorIsResolved
<1> QED
  BY <1>4 DEF moved
=============================================================================
