------------------------ MODULE CorrectionAuthorityProofs ------------------------
(***************************************************************************)
(* The authority tables for any number of corrections, revisions, bindings *)
(* and selectors: what is in the view is authorized, nothing returns to    *)
(* it, supersession is a chain, and the outbox tells what is active.       *)
(***************************************************************************)
EXTENDS CorrectionAuthority, FiniteSetTheorems, TLAPS

\* Only an existing revision with PASS evidence is promoted.
PromotedIsQualified ==
    \A s \in Subject : Promoted(s) => s \in qualified /\ Exists(s)

\* A binding belongs to a promoted revision and stays within its scope.
BoundIsPromoted ==
    \A b \in Binding : binding[b] # NoBinding =>
        /\ Promoted(binding[b].subject)
        /\ promotion[binding[b].subject].scope \subseteq binding[b].selector

\* The outbox has a row for every supersession, and its correction is terminal.
SupersededIsTerminal ==
    /\ \A r, s \in Subject : supersedes[r] = s => <<"superseded", s>> \in outbox
    /\ \A s \in Subject : <<"superseded", s>> \in outbox => Terminal(s[1])

\* The outbox has a row for every promotion and every revocation, and no other.
OutboxTellsPromotions ==
    \A s \in Subject :
        /\ <<"promoted", s>> \in outbox <=> Promoted(s)
        /\ <<"revoked", s>> \in outbox <=> Promoted(s) /\ promotion[s].revoked

AuthorityInv ==
    /\ TypeOK
    /\ PromotedIsQualified
    /\ BoundIsPromoted
    /\ SupersededIsTerminal
    /\ OutboxTellsPromotions
    /\ OutboxTellsWhatIsActive
    /\ SupersessionIsChain

-----------------------------------------------------------------------------
(* What the recursive query of the cycle check returns.                    *)

\* A set of naturals has a least element: induction as the least counterexample.
LEMMA LeastNat ==
    ASSUME NEW T, T \subseteq Nat, T # {}
    PROVE  \E n \in T : \A m \in T : n <= m
<1> DEFINE R == {ss \in Nat \X Nat : ss[1] < ss[2]}
<1>1. IsWellFoundedOn(R, Nat)
  BY NatLessThanWellFounded DEF OpToRel
<1>2. PICK n \in T : \A m \in T : ~(<<m, n>> \in R)
  <2> HIDE DEF R
  <2> QED BY <1>1, WFMin
<1>3. \A m \in T : m \in Nat /\ n \in Nat /\ ~(m < n)
  BY <1>2
<1>4. \A m \in T : n <= m
  BY <1>3
<1> QED
  BY <1>4

\* The recursive definition of Chain, up to n steps, as an equation.
IsReach(f, c, n) ==
    f = [i \in 0..n |-> IF i = 0 THEN {c} ELSE f[i - 1] \cup SupersededBy(f[i - 1])]

\* The equation has a solution, of any length.
LEMMA ReachExists ==
    ASSUME NEW c, NEW n \in Nat
    PROVE  \E f : IsReach(f, c, n)
<1> DEFINE T == {k \in Nat : ~\E f : IsReach(f, c, k)}
<1> SUFFICES ASSUME T # {} PROVE FALSE
  OBVIOUS
<1>1. PICK k \in T : \A m \in T : k <= m
  <2>1. T \subseteq Nat
    OBVIOUS
  <2> HIDE DEF T
  <2> QED BY <2>1, LeastNat
<1>2. IsReach([i \in 0..0 |-> {c}], c, 0)
  BY DEF IsReach
<1>3. k # 0
  BY <1>1, <1>2
<1>4. k - 1 \in Nat /\ k - 1 \notin T
  BY <1>1, <1>3
<1>5. PICK g : IsReach(g, c, k - 1)
  BY <1>4
<1> DEFINE h == [i \in 0..k |-> IF i = k THEN g[k - 1] \cup SupersededBy(g[k - 1])
                                ELSE g[i]]
<1>6. IsReach(h, c, k)
  <2>1. \A i \in 0..(k - 1) : h[i] = g[i]
    BY <1>1, <1>4
  <2>2. \A i \in 0..(k - 1) :
           g[i] = IF i = 0 THEN {c} ELSE g[i - 1] \cup SupersededBy(g[i - 1])
    BY <1>5 DEF IsReach
  <2>3. h[k] = h[k - 1] \cup SupersededBy(h[k - 1])
    BY <1>4, <2>1
  <2> HIDE DEF h
  <2>5. ASSUME NEW i \in 0..k
        PROVE  h[i] = IF i = 0 THEN {c} ELSE h[i - 1] \cup SupersededBy(h[i - 1])
    <3>1. CASE i = k
      BY <1>3, <2>3, <3>1
    <3>2. CASE i = 0
      <4>1. 0 \in 0..(k - 1)
        BY <1>4
      <4> QED
        BY <2>1, <2>2, <3>2, <4>1
    <3>3. CASE i # k /\ i # 0
      <4>1. i \in 0..(k - 1) /\ i - 1 \in 0..(k - 1)
        BY <1>1, <3>3
      <4> QED
        BY <2>1, <2>2, <3>3, <4>1
    <3> QED
      BY <3>1, <3>2, <3>3
  <2>6. h = [i \in 0..k |-> h[i]]
    BY DEF h
  <2> QED
    BY <2>5, <2>6 DEF IsReach
<1> QED
  BY <1>1, <1>6

\* So Chain is what its definition says.
LEMMA ChainIsReach ==
    ASSUME NEW c
    PROVE  \E f : /\ IsReach(f, c, Cardinality(Correction))
                  /\ Chain(c) = f[Cardinality(Correction)]
<1> DEFINE N == Cardinality(Correction)
           r == CHOOSE f : IsReach(f, c, N)
<1>1. N \in Nat
  BY AuthorityAssumption, FS_CardinalityType
<1>2. IsReach(r, c, N)
  BY <1>1, ReachExists
<1>3. Chain(c) = r[N]
  BY DEF Chain, IsReach
<1> QED
  BY <1>2, <1>3

\* Chain(c) is the least set with c that is closed under supersession: the
\* query needs no more rounds than there are corrections.
ChainIsLeastClosed ==
    \A c \in Correction :
        /\ c \in Chain(c) /\ Chain(c) \subseteq Correction
        /\ SupersededBy(Chain(c)) \subseteq Chain(c)
        /\ \A S : c \in S /\ SupersededBy(S) \subseteq S => Chain(c) \subseteq S

LEMMA ReachGrows ==
    ASSUME NEW c \in Correction, NEW N \in Nat, NEW f, IsReach(f, c, N)
    PROVE  /\ f[0] = {c}
           /\ \A n \in 0..N : n # 0 =>
                 /\ n - 1 \in 0..N
                 /\ f[n] = f[n - 1] \cup SupersededBy(f[n - 1])
           /\ \A n \in 0..N : f[n] \subseteq Correction
<1>1. 0 \in 0..N /\ \A n \in 0..N : n # 0 => n - 1 \in 0..N
  OBVIOUS
<1>2. \A n \in 0..N : f[n] = IF n = 0 THEN {c}
                             ELSE f[n - 1] \cup SupersededBy(f[n - 1])
  BY DEF IsReach
<1>3. f[0] = {c} /\ \A n \in 0..N : n # 0 =>
         f[n] = f[n - 1] \cup SupersededBy(f[n - 1])
  BY <1>1, <1>2
<1> DEFINE T == {n \in 0..N : ~(f[n] \subseteq Correction)}
<1>4. T = {}
  <2> SUFFICES ASSUME T # {} PROVE FALSE
    OBVIOUS
  <2>1. PICK k \in T : \A m \in T : k <= m
    <3>1. T \subseteq Nat
      OBVIOUS
    <3> HIDE DEF T
    <3> QED BY <3>1, LeastNat
  <2>2. k # 0
    BY <1>3
  <2>3. k - 1 \in 0..N /\ k - 1 \notin T
    BY <1>1, <2>1, <2>2
  <2>4. f[k - 1] \subseteq Correction /\ SupersededBy(f[k - 1]) \subseteq Correction
    BY <2>3 DEF SupersededBy
  <2> QED
    BY <1>3, <2>2, <2>4
<1> QED
  BY <1>1, <1>3, <1>4

\* Either a round added nothing, or there is a new correction in every round.
LEMMA ReachCloses ==
    ASSUME NEW c \in Correction, NEW N \in Nat, NEW f, IsReach(f, c, N),
           NEW n \in 0..N
    PROVE  SupersededBy(f[n]) \subseteq f[n] \/ Cardinality(f[n]) > n
<1> DEFINE P(k) == SupersededBy(f[k]) \subseteq f[k] \/ Cardinality(f[k]) > k
           T == {k \in 0..N : ~P(k)}
<1>1. /\ f[0] = {c}
      /\ \A k \in 0..N : k # 0 =>
            k - 1 \in 0..N /\ f[k] = f[k - 1] \cup SupersededBy(f[k - 1])
      /\ \A k \in 0..N : f[k] \subseteq Correction
  BY ReachGrows
<1>2. \A k \in 0..N : IsFiniteSet(f[k]) /\ Cardinality(f[k]) \in Nat
  BY <1>1, AuthorityAssumption, FS_Subset, FS_CardinalityType
<1>3. T = {}
  <2> SUFFICES ASSUME T # {} PROVE FALSE
    OBVIOUS
  <2>1. PICK k \in T : \A m \in T : k <= m
    <3>1. T \subseteq Nat
      OBVIOUS
    <3> HIDE DEF T
    <3> QED BY <3>1, LeastNat
  <2>2. k \in 0..N /\ ~P(k)
    OBVIOUS
  <2>3. k # 0
    <3>1. Cardinality({c}) = 1
      BY FS_Singleton
    <3>2. Cardinality(f[0]) > 0
      BY <1>1, <3>1
    <3> QED
      BY <2>2, <3>2
  <2> DEFINE A == f[k - 1]
             B == f[k]
  <2>4. k - 1 \in 0..N /\ B = A \cup SupersededBy(A)
    BY <1>1, <2>2, <2>3
  <2>5. P(k - 1)
    <3>1. k - 1 < k
      BY <2>2
    <3> QED
      BY <2>1, <2>2, <2>4, <3>1
  <2>6. B # A
    BY <2>2, <2>4, <2>5
  <2>7. Cardinality(A) > k - 1
    BY <2>4, <2>5, <2>6
  <2>8. Cardinality(A) \in Nat /\ Cardinality(B) \in Nat
    BY <1>2, <2>2, <2>4
  <2>9. Cardinality(A) < Cardinality(B)
    <3>1. A \in SUBSET B /\ IsFiniteSet(B)
      BY <1>2, <2>2, <2>4
    <3>2. Cardinality(A) <= Cardinality(B) /\ (Cardinality(B) = Cardinality(A) => B = A)
      <4> HIDE DEF A, B
      <4> QED BY <3>1, FS_Subset
    <3> HIDE DEF A, B
    <3> QED
      BY <2>6, <2>8, <3>2
  <2>10. ~(Cardinality(B) > k)
    BY <2>2
  <2>11. k \in Nat
    BY <2>2
  <2> HIDE DEF A, B
  <2> QED
    BY <2>7, <2>8, <2>9, <2>10, <2>11
<1> QED
  BY <1>3

LEMMA ChainIsClosure == ChainIsLeastClosed
<1> SUFFICES ASSUME NEW c \in Correction
             PROVE  /\ c \in Chain(c) /\ Chain(c) \subseteq Correction
                    /\ SupersededBy(Chain(c)) \subseteq Chain(c)
                    /\ \A S : c \in S /\ SupersededBy(S) \subseteq S => Chain(c) \subseteq S
  BY DEF ChainIsLeastClosed
<1> DEFINE N == Cardinality(Correction)
<1>1. N \in Nat
  BY AuthorityAssumption, FS_CardinalityType
<1>2. PICK f : IsReach(f, c, N) /\ Chain(c) = f[N]
  BY ChainIsReach
<1> HIDE DEF N
<1>3. /\ f[0] = {c}
      /\ \A k \in 0..N : k # 0 =>
            k - 1 \in 0..N /\ f[k] = f[k - 1] \cup SupersededBy(f[k - 1])
      /\ \A k \in 0..N : f[k] \subseteq Correction
  BY <1>1, <1>2, ReachGrows
<1>4. N \in 0..N
  BY <1>1
<1>5. SupersededBy(f[N]) \subseteq f[N]
  <2>1. Cardinality(f[N]) <= N /\ Cardinality(f[N]) \in Nat
    BY <1>3, <1>4, AuthorityAssumption, FS_Subset, FS_CardinalityType DEF N
  <2>2. SupersededBy(f[N]) \subseteq f[N] \/ Cardinality(f[N]) > N
    BY <1>1, <1>2, <1>4, ReachCloses
  <2> QED
    BY <1>1, <2>1, <2>2
<1>6. c \in f[N]
  <2> DEFINE T == {k \in 0..N : c \notin f[k]}
  <2> SUFFICES ASSUME T # {} PROVE FALSE
    BY <1>4
  <2>1. PICK k \in T : \A m \in T : k <= m
    <3>1. T \subseteq Nat
      OBVIOUS
    <3> HIDE DEF T
    <3> QED BY <3>1, LeastNat
  <2>2. k # 0
    BY <1>3
  <2>3. k - 1 \in 0..N /\ f[k] = f[k - 1] \cup SupersededBy(f[k - 1])
    BY <1>3, <2>2
  <2>4. k - 1 \notin T
    BY <2>1, <2>3
  <2> QED
    BY <2>3, <2>4
<1>7. ASSUME NEW S, c \in S, SupersededBy(S) \subseteq S
      PROVE  f[N] \subseteq S
  <2> DEFINE T == {k \in 0..N : ~(f[k] \subseteq S)}
  <2> SUFFICES ASSUME T # {} PROVE FALSE
    BY <1>4
  <2>1. PICK k \in T : \A m \in T : k <= m
    <3>1. T \subseteq Nat
      OBVIOUS
    <3> HIDE DEF T
    <3> QED BY <3>1, LeastNat
  <2>2. k # 0
    BY <1>3, <1>7
  <2>3. k - 1 \in 0..N /\ f[k] = f[k - 1] \cup SupersededBy(f[k - 1])
    BY <1>3, <2>2
  <2>4. f[k - 1] \subseteq S
    BY <2>1, <2>3
  <2>5. SupersededBy(f[k - 1]) \subseteq SupersededBy(S)
    BY <2>4 DEF SupersededBy
  <2> QED
    BY <1>7, <2>3, <2>4, <2>5
<1> QED
  BY <1>2, <1>3, <1>4, <1>5, <1>6, <1>7

-----------------------------------------------------------------------------
(* The tables have their types.                                            *)

LEMMA SubjectParts ==
    \A r, s \in Subject : r[1] = s[1] /\ r[2] = s[2] => r = s
BY DEF Subject

\* Deactivating the bindings of a subject leaves the rest of every row alone.
LEMMA WithoutBindings ==
    ASSUME TypeOK, NEW s
    PROVE  /\ WithoutBindingsOf(s) \in [Binding -> BindingRow \cup {NoBinding}]
           /\ \A b \in Binding : WithoutBindingsOf(s)[b] = NoBinding <=> binding[b] = NoBinding
           /\ \A b \in Binding : binding[b] # NoBinding =>
                 /\ WithoutBindingsOf(s)[b].subject = binding[b].subject
                 /\ WithoutBindingsOf(s)[b].selector = binding[b].selector
                 /\ WithoutBindingsOf(s)[b].expires = binding[b].expires
                 /\ WithoutBindingsOf(s)[b].active => binding[b].active
<1> SUFFICES ASSUME NEW b \in Binding
             PROVE  /\ WithoutBindingsOf(s)[b] \in BindingRow \cup {NoBinding}
                    /\ WithoutBindingsOf(s)[b] = NoBinding <=> binding[b] = NoBinding
                    /\ binding[b] # NoBinding =>
                       /\ WithoutBindingsOf(s)[b].subject = binding[b].subject
                       /\ WithoutBindingsOf(s)[b].selector = binding[b].selector
                       /\ WithoutBindingsOf(s)[b].expires = binding[b].expires
                       /\ WithoutBindingsOf(s)[b].active => binding[b].active
  BY DEF WithoutBindingsOf
<1>1. CASE binding[b] # NoBinding /\ binding[b].subject = s
  <2>1. binding[b] \in BindingRow
    BY <1>1 DEF TypeOK
  <2>2. WithoutBindingsOf(s)[b] = [binding[b] EXCEPT !.active = FALSE]
    BY <1>1 DEF WithoutBindingsOf, Deactivated
  <2>3. [binding[b] EXCEPT !.active = FALSE] \in BindingRow
    BY <2>1 DEF BindingRow
  <2> QED
    BY <1>1, <2>1, <2>2, <2>3, AuthorityAssumption DEF BindingRow
<1>2. CASE ~(binding[b] # NoBinding /\ binding[b].subject = s)
  BY <1>2 DEF WithoutBindingsOf, TypeOK
<1> QED
  BY <1>1, <1>2

LEMMA InitTyped == Init => TypeOK
BY AuthorityAssumption DEF Init, TypeOK, CorrectionStatus

LEMMA InsertTyped ==
    ASSUME TypeOK, NEW c \in Correction, NEW s \in Subject \cup {NoSubject},
           insert_correction_revision(c, s)
    PROVE  TypeOK'
<1>1. revision' \in [Correction -> 0..MaxRevision]
  <2>1. revision[c] + 1 \in 0..MaxRevision
    BY DEF insert_correction_revision, Mintable, Subject
  <2> QED
    BY <2>1 DEF TypeOK, insert_correction_revision
<1>2. supersedes' \in [Subject -> Subject \cup {NoSubject}]
  BY DEF TypeOK, insert_correction_revision
<1>3. status' \in [Correction -> CorrectionStatus]
  BY DEF TypeOK, insert_correction_revision, CorrectionStatus, Subject
<1>4. binding' \in [Binding -> BindingRow \cup {NoBinding}]
  BY WithoutBindings DEF TypeOK, insert_correction_revision
<1>5. outbox' \subseteq OutboxKey
  BY DEF TypeOK, insert_correction_revision, OutboxKey
<1> QED
  BY <1>1, <1>2, <1>3, <1>4, <1>5 DEF TypeOK, insert_correction_revision

LEMMA AuthorizeTyped ==
    ASSUME TypeOK, NEW s \in Subject, NEW scope \in Selector, NEW ack \in BOOLEAN,
           authorize_and_promote(s, scope, ack)
    PROVE  TypeOK'
<1>1. [scope |-> scope, revoked |-> FALSE] \in Promotion
  BY DEF Promotion, authorize_and_promote, selector_valid
<1>2. promotion' \in [Subject -> Promotion \cup {NoPromotion}]
  BY <1>1 DEF TypeOK, authorize_and_promote
<1>3. status' \in [Correction -> CorrectionStatus]
  BY DEF TypeOK, authorize_and_promote, CorrectionStatus
<1>4. outbox' \subseteq OutboxKey
  BY DEF TypeOK, authorize_and_promote, OutboxKey
<1> QED
  BY <1>2, <1>3, <1>4 DEF TypeOK, authorize_and_promote

LEMMA CreateTyped ==
    ASSUME TypeOK, NEW b \in Binding, NEW s \in Subject, NEW a \in Adapter,
           NEW sel \in Selector, NEW d \in Digest, NEW t \in Instant,
           create_authorized_binding(b, s, a, sel, d, t)
    PROVE  TypeOK'
<1>1. [subject |-> s, adapter |-> a, selector |-> sel, digest |-> d,
     expires |-> t, active |-> TRUE]
         \in BindingRow
  BY DEF BindingRow, create_authorized_binding, selector_within_scope, selector_valid
<1> QED
  BY <1>1 DEF TypeOK, create_authorized_binding

\* A restriction only takes from a row.
LEMMA Restriction ==
    ASSUME TypeOK, NEW b \in Binding, NEW deactivate \in BOOLEAN, NEW t \in Instant,
           restrict_injection_binding(b, deactivate, t)
    PROVE  /\ binding' \in [Binding -> BindingRow \cup {NoBinding}]
           /\ \A o \in Binding : binding'[o] = NoBinding <=> binding[o] = NoBinding
           /\ \A o \in Binding : binding[o] # NoBinding =>
                 /\ binding'[o].subject = binding[o].subject
                 /\ binding'[o].selector = binding[o].selector
                 /\ binding'[o].expires <= binding[o].expires
                 /\ binding'[o].active => binding[o].active
<1> DEFINE row == [binding[b] EXCEPT !.active = @ /\ ~deactivate,
                                     !.expires = IF t = Never THEN @ ELSE t]
<1>1. binding' = [binding EXCEPT ![b] = row]
  BY DEF restrict_injection_binding, TypeOK
<1>2. binding[b] \in BindingRow
  BY DEF restrict_injection_binding, TypeOK
<1>3. row \in BindingRow /\ row.subject = binding[b].subject
         /\ row.selector = binding[b].selector /\ (row.active => binding[b].active)
         /\ row.expires = IF t = Never THEN binding[b].expires ELSE t
  BY <1>2 DEF BindingRow
<1>4. row.expires <= binding[b].expires
  <2>1. binding[b].expires \in Nat
    BY <1>2, AuthorityAssumption DEF BindingRow, Instant, Never
  <2> QED
    BY <1>3, <2>1 DEF restrict_injection_binding
<1> HIDE DEF row
<1>5. ASSUME NEW o \in Binding, binding[o] # NoBinding PROVE binding[o].expires \in Nat
  BY <1>5, AuthorityAssumption DEF TypeOK, BindingRow, Instant, Never
<1>6. ASSUME NEW o \in Binding
      PROVE  /\ binding'[o] = NoBinding <=> binding[o] = NoBinding
             /\ binding[o] # NoBinding =>
                 /\ binding'[o].subject = binding[o].subject
                 /\ binding'[o].selector = binding[o].selector
                 /\ binding'[o].expires <= binding[o].expires
                 /\ binding'[o].active => binding[o].active
  <2>1. CASE o = b
    BY <1>1, <1>2, <1>3, <1>4, <2>1, AuthorityAssumption DEF TypeOK
  <2>2. CASE o # b
    BY <1>1, <1>5, <2>2 DEF TypeOK
  <2> QED
    BY <2>1, <2>2
<1>7. binding' \in [Binding -> BindingRow \cup {NoBinding}]
  BY <1>1, <1>3 DEF TypeOK
<1> QED
  BY <1>6, <1>7

LEMMA RevokeTyped ==
    ASSUME TypeOK, NEW s \in Subject, revoke_authorized_promotion(s)
    PROVE  TypeOK'
<1>1. promotion[s] \in Promotion
  BY DEF TypeOK, revoke_authorized_promotion, promotion_revocation_effects, Promoted
<1>2. promotion' \in [Subject -> Promotion \cup {NoPromotion}]
  BY <1>1 DEF TypeOK, revoke_authorized_promotion, promotion_revocation_effects, Promotion
<1>3. status' \in [Correction -> CorrectionStatus]
  BY DEF TypeOK, revoke_authorized_promotion, promotion_revocation_effects, CorrectionStatus
<1>4. outbox' \subseteq OutboxKey
  BY DEF TypeOK, revoke_authorized_promotion, promotion_revocation_effects, OutboxKey
<1>5. binding' \in [Binding -> BindingRow \cup {NoBinding}]
  BY WithoutBindings DEF revoke_authorized_promotion, promotion_revocation_effects
<1> QED
  BY <1>2, <1>3, <1>4, <1>5 DEF TypeOK, revoke_authorized_promotion, promotion_revocation_effects

LEMMA StepTyped == TypeOK /\ [Next]_vars => TypeOK'
<1> SUFFICES ASSUME TypeOK, [Next]_vars PROVE TypeOK'
  OBVIOUS
<1>1. ASSUME NEW s \in Subject, qualify(s) PROVE TypeOK'
  BY <1>1 DEF TypeOK, qualify
<1>2. ASSUME NEW b \in Binding, NEW deactivate \in BOOLEAN, NEW t \in Instant,
             restrict_injection_binding(b, deactivate, t)
      PROVE  TypeOK'
  BY <1>2, Restriction DEF TypeOK, restrict_injection_binding
<1>3. ASSUME Tick PROVE TypeOK'
  BY <1>3, AuthorityAssumption DEF TypeOK, Tick
<1>4. ASSUME UNCHANGED vars PROVE TypeOK'
  BY <1>4 DEF TypeOK, vars
<1> QED
  BY InsertTyped, AuthorizeTyped, CreateTyped, RevokeTyped, <1>1, <1>2, <1>3, <1>4
     DEF Next

-----------------------------------------------------------------------------
(* Each clause of the invariant is kept by each action.                    *)

\* The subject that the next revision of c will be.
Minted(c) == <<c, revision[c] + 1>>

\* A new revision, in the terms the clauses use.
LEMMA InsertFacts ==
    ASSUME TypeOK, NEW c \in Correction, NEW s \in Subject \cup {NoSubject},
           insert_correction_revision(c, s)
    PROVE  /\ Minted(c) \in Subject /\ ~Exists(Minted(c)) /\ ~Terminal(c)
           /\ \A x \in Subject : IsCurrent(x)' <=> x = Minted(c) \/ (x[1] # c /\ IsCurrent(x))
           /\ \A x \in Subject : Exists(x) => Exists(x)'
           /\ \A x \in Subject : supersedes'[x] = IF x = Minted(c) THEN s ELSE supersedes[x]
           /\ s = NoSubject => outbox' = outbox /\ binding' = binding
           /\ s # NoSubject => /\ s \in Subject /\ s[1] \in Correction /\ s[1] # c
                               /\ MaySupersede(c, s)
                               /\ outbox' = outbox \cup {<<"superseded", s>>}
           /\ \A d \in Correction :
                 status'[d] = IF d = c THEN "CORRECTION_PROPOSED"
                              ELSE IF s # NoSubject /\ d = s[1] THEN "SUPERSEDED"
                              ELSE status[d]
<1> DEFINE n == <<c, revision[c] + 1>>
<1>1. n \in Subject /\ ~Terminal(c) /\ revision' = [revision EXCEPT ![c] = @ + 1]
  BY DEF insert_correction_revision, Mintable
<1>2. revision \in [Correction -> 0..MaxRevision] /\ MaxRevision \in Nat
  BY AuthorityAssumption DEF TypeOK
<1>3. ~Exists(n)
  BY <1>2 DEF Exists
<1>4. \A x \in Subject : (IsCurrent(x)' <=> x = n \/ (x[1] # c /\ IsCurrent(x)))
  <2> SUFFICES ASSUME NEW x \in Subject
               PROVE  IsCurrent(x)' <=> x = n \/ (x[1] # c /\ IsCurrent(x))
    OBVIOUS
  <2>1. x[1] \in Correction /\ x[2] \in Nat /\ n[1] = c /\ n[2] = revision[c] + 1
    BY <1>2 DEF Subject
  <2>2. CASE x[1] = c
    <3>1. revision'[x[1]] = revision[c] + 1
      BY <1>1, <1>2, <2>1, <2>2
    <3>2. x = n <=> x[2] = n[2]
      BY <1>1, <2>1, <2>2, SubjectParts
    <3> QED
      BY <2>1, <2>2, <3>1, <3>2 DEF IsCurrent
  <2>3. CASE x[1] # c
    BY <1>1, <1>2, <2>1, <2>3 DEF IsCurrent
  <2> QED
    BY <2>2, <2>3
<1>5. \A x \in Subject : Exists(x) => Exists(x)'
  <2> SUFFICES ASSUME NEW x \in Subject, x[2] <= revision[x[1]]
               PROVE  x[2] <= revision'[x[1]]
    BY DEF Exists
  <2>1. x[1] \in Correction /\ x[2] \in Nat /\ revision[x[1]] \in Nat
    BY <1>2 DEF Subject
  <2> QED
    BY <1>1, <1>2, <2>1
<1>6. \A x \in Subject : supersedes'[x] = IF x = n THEN s ELSE supersedes[x]
  BY <1>1 DEF insert_correction_revision, TypeOK
<1>7. s # NoSubject => s \in Subject /\ s[1] \in Correction /\ s[1] # c
  BY DEF insert_correction_revision, MaySupersede, Subject
<1>8. \A d \in Correction :
         status'[d] = IF d = c THEN "CORRECTION_PROPOSED"
                      ELSE IF s # NoSubject /\ d = s[1] THEN "SUPERSEDED"
                      ELSE status[d]
  BY <1>7 DEF insert_correction_revision, TypeOK
<1> QED
  BY <1>1, <1>3, <1>4, <1>5, <1>6, <1>7, <1>8 DEF insert_correction_revision, Minted

LEMMA StepPromotedIsQualified ==
    TypeOK /\ PromotedIsQualified /\ [Next]_vars => PromotedIsQualified'
<1> SUFFICES ASSUME TypeOK, PromotedIsQualified, [Next]_vars PROVE PromotedIsQualified'
  OBVIOUS
<1>1. ASSUME NEW c \in Correction, NEW s \in Subject \cup {NoSubject},
             insert_correction_revision(c, s)
      PROVE  PromotedIsQualified'
  <2>1. UNCHANGED <<qualified, promotion>>
    BY <1>1 DEF insert_correction_revision
  <2> QED
    BY <1>1, <2>1, InsertFacts DEF PromotedIsQualified, Promoted
<1>2. ASSUME NEW s \in Subject, qualify(s) PROVE PromotedIsQualified'
  BY <1>2 DEF qualify, PromotedIsQualified, Promoted, Exists
<1>3. ASSUME NEW s \in Subject, NEW scope \in Selector, NEW ack \in BOOLEAN,
             authorize_and_promote(s, scope, ack)
      PROVE  PromotedIsQualified'
  <2>1. Exists(s)
    BY <1>3, AuthorityAssumption
       DEF authorize_and_promote, IsCurrent, Exists, TypeOK, Subject
  <2> QED
    BY <1>3, <2>1 DEF authorize_and_promote, PromotedIsQualified, Promoted, Exists, TypeOK
<1>4. ASSUME NEW s \in Subject, revoke_authorized_promotion(s) PROVE PromotedIsQualified'
  <2>1. \A x \in Subject : Promoted(x)' => Promoted(x)
    BY <1>4 DEF revoke_authorized_promotion, promotion_revocation_effects, Promoted, TypeOK
  <2> QED
    BY <1>4, <2>1 DEF revoke_authorized_promotion,
           promotion_revocation_effects, PromotedIsQualified, Exists
<1>5. ASSUME UNCHANGED <<revision, qualified, promotion>> PROVE PromotedIsQualified'
  BY <1>5 DEF PromotedIsQualified, Promoted, Exists
<1> QED
  BY <1>1, <1>2, <1>3, <1>4, <1>5
     DEF Next, vars, Tick, create_authorized_binding, restrict_injection_binding

\* What every action but create_authorized_binding leaves of a binding.
LEMMA BindingStays ==
    ASSUME TypeOK, [Next]_vars, NEW o \in Binding, binding[o] # NoBinding
    PROVE  /\ binding'[o] # NoBinding
           /\ binding'[o].subject = binding[o].subject
           /\ binding'[o].selector = binding[o].selector
           /\ binding'[o].expires <= binding[o].expires
           /\ binding'[o].active => binding[o].active
<1> DEFINE G == /\ binding'[o] # NoBinding
                /\ binding'[o].subject = binding[o].subject
                /\ binding'[o].selector = binding[o].selector
                /\ binding'[o].expires <= binding[o].expires
                /\ binding'[o].active => binding[o].active
<1>0. binding[o].expires \in Nat
  BY AuthorityAssumption DEF TypeOK, BindingRow, Instant, Never
<1>1. ASSUME NEW s, binding' = WithoutBindingsOf(s) PROVE G
  BY <1>0, <1>1, WithoutBindings
<1>2. ASSUME UNCHANGED binding PROVE G
  BY <1>0, <1>2
<1>3. ASSUME NEW b \in Binding, NEW deactivate \in BOOLEAN, NEW t \in Instant,
             restrict_injection_binding(b, deactivate, t)
      PROVE  G
  BY <1>3, Restriction
<1>4. ASSUME NEW b \in Binding, NEW s \in Subject, NEW a \in Adapter,
             NEW sel \in Selector, NEW d \in Digest, NEW t \in Instant,
             create_authorized_binding(b, s, a, sel, d, t)
      PROVE  G
  <2>1. binding'[o] = binding[o]
    BY <1>4 DEF create_authorized_binding, TypeOK
  <2> QED
    BY <1>0, <2>1
<1> HIDE DEF G
<1>5. ASSUME NEW c \in Correction, NEW s \in Subject \cup {NoSubject},
             insert_correction_revision(c, s)
      PROVE  G
  BY <1>1, <1>2, <1>5 DEF insert_correction_revision
<1>6. ASSUME NEW s \in Subject, revoke_authorized_promotion(s) PROVE G
  BY <1>1, <1>6 DEF revoke_authorized_promotion, promotion_revocation_effects
<1>7. G
  BY <1>2, <1>3, <1>4, <1>5, <1>6
     DEF Next, vars, qualify, authorize_and_promote, Tick
<1> QED
  BY <1>7 DEF G

\* A promotion stays, with its scope, and stays revoked.
LEMMA PromotionStays ==
    ASSUME TypeOK, [Next]_vars, NEW s \in Subject, Promoted(s)
    PROVE  /\ Promoted(s)'
           /\ promotion'[s].scope = promotion[s].scope
           /\ promotion[s].revoked => promotion'[s].revoked
<1> DEFINE G == /\ Promoted(s)'
                /\ promotion'[s].scope = promotion[s].scope
                /\ promotion[s].revoked => promotion'[s].revoked
<1>0. promotion[s] \in Promotion
  BY DEF TypeOK, Promoted
<1>1. ASSUME UNCHANGED promotion PROVE G
  BY <1>1 DEF Promoted
<1>2. ASSUME NEW r \in Subject, NEW scope \in Selector, NEW ack \in BOOLEAN,
             authorize_and_promote(r, scope, ack)
      PROVE  G
  <2>1. promotion'[s] = promotion[s]
    BY <1>2 DEF authorize_and_promote, Promoted, TypeOK
  <2> QED
    BY <2>1 DEF Promoted
<1>3. ASSUME NEW r \in Subject, revoke_authorized_promotion(r) PROVE G
  <2>1. promotion'[s] = promotion[s]
           \/ promotion'[s] = [promotion[s] EXCEPT !.revoked = TRUE]
    BY <1>3 DEF revoke_authorized_promotion, promotion_revocation_effects, TypeOK
  <2>2. [promotion[s] EXCEPT !.revoked = TRUE] \in Promotion
    BY <1>0 DEF Promotion
  <2> QED
    BY <1>0, <2>1, <2>2, AuthorityAssumption DEF Promoted, Promotion
<1> HIDE DEF G
<1>4. G
  BY <1>1, <1>2, <1>3
     DEF Next, vars, qualify, Tick, insert_correction_revision,
         create_authorized_binding, restrict_injection_binding
<1> QED
  BY <1>4 DEF G

\* Only create_authorized_binding adds a binding.
LEMMA OnlyCreateAdds ==
    ASSUME TypeOK, [Next]_vars, NEW o \in Binding, binding[o] = NoBinding,
           binding'[o] # NoBinding
    PROVE  \E b \in Binding, s \in Subject, a \in Adapter, sel \in Selector,
                 d \in Digest, t \in Instant :
              create_authorized_binding(b, s, a, sel, d, t)
<1>1. ASSUME UNCHANGED binding PROVE FALSE
  BY <1>1
<1>2. ASSUME NEW c \in Correction, NEW s \in Subject \cup {NoSubject},
             insert_correction_revision(c, s)
      PROVE  FALSE
  BY <1>2, WithoutBindings DEF insert_correction_revision
<1>3. ASSUME NEW s \in Subject, revoke_authorized_promotion(s) PROVE FALSE
  BY <1>3, WithoutBindings DEF revoke_authorized_promotion, promotion_revocation_effects
<1>4. ASSUME NEW b \in Binding, NEW deactivate \in BOOLEAN, NEW t \in Instant,
             restrict_injection_binding(b, deactivate, t)
      PROVE  FALSE
  BY <1>4, Restriction
<1> QED
  BY <1>1, <1>2, <1>3, <1>4 DEF Next, vars, qualify, authorize_and_promote, Tick

LEMMA StepBoundIsPromoted ==
    TypeOK /\ BoundIsPromoted /\ [Next]_vars => BoundIsPromoted'
<1> SUFFICES ASSUME TypeOK, BoundIsPromoted, [Next]_vars,
                    NEW o \in Binding, binding'[o] # NoBinding
             PROVE  /\ promotion'[binding'[o].subject] # NoPromotion
                    /\ promotion'[binding'[o].subject].scope \subseteq binding'[o].selector
  BY DEF BoundIsPromoted, Promoted
<1>1. CASE binding[o] # NoBinding
  <2>1. binding[o].subject \in Subject
    BY <1>1 DEF TypeOK, BindingRow
  <2>2. /\ binding'[o].subject = binding[o].subject
        /\ binding'[o].selector = binding[o].selector
    BY <1>1, BindingStays
  <2>3. Promoted(binding[o].subject)
           /\ promotion[binding[o].subject].scope \subseteq binding[o].selector
    BY <1>1 DEF BoundIsPromoted
  <2>4. /\ promotion'[binding[o].subject] # NoPromotion
        /\ promotion'[binding[o].subject].scope = promotion[binding[o].subject].scope
    BY <2>1, <2>3, PromotionStays DEF Promoted
  <2> QED
    BY <2>2, <2>3, <2>4
<1>2. CASE binding[o] = NoBinding
  <2>1. PICK b \in Binding, s \in Subject, a \in Adapter, sel \in Selector,
                 d \in Digest, t \in Instant :
           create_authorized_binding(b, s, a, sel, d, t)
    BY <1>2, OnlyCreateAdds
  <2>2. binding'[o] = [subject |-> s, adapter |-> a, selector |-> sel,
                       digest |-> d, expires |-> t, active |-> TRUE]
    BY <1>2, <2>1 DEF create_authorized_binding, TypeOK
  <2> QED
    BY <2>1, <2>2 DEF create_authorized_binding, selector_within_scope, Promoted
<1> QED
  BY <1>1, <1>2

\* No step takes a correction out of SUPERSEDED or REVOKED.
LEMMA TerminalStays ==
    ASSUME TypeOK, [Next]_vars, NEW d \in Correction, Terminal(d)
    PROVE  Terminal(d)'
<1>1. ASSUME NEW c \in Correction, NEW s \in Subject \cup {NoSubject},
             insert_correction_revision(c, s)
      PROVE  Terminal(d)'
  BY <1>1, InsertFacts DEF Terminal
<1>2. ASSUME NEW s \in Subject, NEW scope \in Selector, NEW ack \in BOOLEAN,
             authorize_and_promote(s, scope, ack)
      PROVE  Terminal(d)'
  BY <1>2 DEF authorize_and_promote, Terminal, TypeOK
<1>3. ASSUME NEW s \in Subject, revoke_authorized_promotion(s) PROVE Terminal(d)'
  BY <1>3 DEF revoke_authorized_promotion, promotion_revocation_effects, Terminal, TypeOK
<1>4. ASSUME UNCHANGED status PROVE Terminal(d)'
  BY <1>4 DEF Terminal
<1> QED
  BY <1>1, <1>2, <1>3, <1>4
     DEF Next, vars, qualify, Tick, create_authorized_binding, restrict_injection_binding

LEMMA StepSupersededIsTerminal ==
    TypeOK /\ SupersededIsTerminal /\ [Next]_vars => SupersededIsTerminal'
<1> SUFFICES ASSUME TypeOK, SupersededIsTerminal, [Next]_vars
             PROVE  SupersededIsTerminal'
  OBVIOUS
<1>0. \A x \in Subject : Terminal(x[1]) => Terminal(x[1])'
  <2> SUFFICES ASSUME NEW x \in Subject, status[x[1]] \in {"SUPERSEDED", "REVOKED", "REJECTED"}
               PROVE  status'[x[1]] \in {"SUPERSEDED", "REVOKED", "REJECTED"}
    BY DEF Terminal
  <2>1. x[1] \in Correction
    BY DEF Subject
  <2> QED
    BY <2>1, TerminalStays DEF Terminal
<1>1. ASSUME NEW c \in Correction, NEW s \in Subject \cup {NoSubject},
             insert_correction_revision(c, s)
      PROVE  SupersededIsTerminal'
  <2>1. \A x \in Subject : supersedes'[x] = IF x = Minted(c) THEN s ELSE supersedes[x]
    BY <1>1, InsertFacts
  <2>2. outbox' = outbox \/ outbox' = outbox \cup {<<"superseded", s>>}
    BY <1>1, InsertFacts
  <2>3. s # NoSubject => <<"superseded", s>> \in outbox' /\ Terminal(s[1])'
    <3> SUFFICES ASSUME s # NoSubject PROVE <<"superseded", s>> \in outbox' /\ Terminal(s[1])'
      OBVIOUS
    <3>1. s[1] \in Correction /\ s[1] # c /\ outbox' = outbox \cup {<<"superseded", s>>}
      BY <1>1, InsertFacts
    <3>2. status'[s[1]] = "SUPERSEDED"
      BY <1>1, <3>1, InsertFacts
    <3> QED
      BY <3>1, <3>2 DEF Terminal
  <2>4. outbox \subseteq outbox'
    BY <2>2
  <2>5. ASSUME NEW r \in Subject, NEW x \in Subject, supersedes'[r] = x
        PROVE  <<"superseded", x>> \in outbox'
    <3>1. CASE r = Minted(c)
      BY <2>1, <2>3, <2>5, <3>1, AuthorityAssumption
    <3>2. CASE r # Minted(c)
      BY <2>1, <2>4, <2>5, <3>2 DEF SupersededIsTerminal
    <3> QED
      BY <3>1, <3>2
  <2>6. ASSUME NEW x \in Subject, <<"superseded", x>> \in outbox'
        PROVE  Terminal(x[1])'
    <3>1. CASE <<"superseded", x>> \in outbox
      BY <1>0, <3>1 DEF SupersededIsTerminal
    <3>2. CASE <<"superseded", x>> \notin outbox
      <4>1. s = x
        BY <2>2, <2>6, <3>2
      <4> QED
        BY <2>3, <4>1, AuthorityAssumption
    <3> QED
      BY <3>1, <3>2
  <2> QED
    BY <2>5, <2>6 DEF SupersededIsTerminal
<1>2. ASSUME UNCHANGED supersedes,
             \A x \in Subject : <<"superseded", x>> \in outbox' <=> <<"superseded", x>> \in outbox
      PROVE  SupersededIsTerminal'
  BY <1>0, <1>2 DEF SupersededIsTerminal
<1>3. ASSUME NEW s \in Subject, NEW scope \in Selector, NEW ack \in BOOLEAN,
             authorize_and_promote(s, scope, ack)
      PROVE  SupersededIsTerminal'
  BY <1>2, <1>3 DEF authorize_and_promote
<1>4. ASSUME NEW s \in Subject, revoke_authorized_promotion(s)
      PROVE  SupersededIsTerminal'
  BY <1>2, <1>4 DEF revoke_authorized_promotion, promotion_revocation_effects
<1> QED
  BY <1>1, <1>2, <1>3, <1>4
     DEF Next, vars, qualify, Tick, create_authorized_binding, restrict_injection_binding

LEMMA StepOutboxTellsPromotions ==
    TypeOK /\ OutboxTellsPromotions /\ [Next]_vars => OutboxTellsPromotions'
<1> SUFFICES ASSUME TypeOK, OutboxTellsPromotions, [Next]_vars
             PROVE  OutboxTellsPromotions'
  OBVIOUS
<1>1. ASSUME UNCHANGED promotion,
             \A x \in Subject : /\ <<"promoted", x>> \in outbox' <=> <<"promoted", x>> \in outbox
                                /\ <<"revoked", x>> \in outbox' <=> <<"revoked", x>> \in outbox
      PROVE  OutboxTellsPromotions'
  BY <1>1 DEF OutboxTellsPromotions, Promoted
<1>2. ASSUME NEW c \in Correction, NEW s \in Subject \cup {NoSubject},
             insert_correction_revision(c, s)
      PROVE  OutboxTellsPromotions'
  BY <1>1, <1>2 DEF insert_correction_revision
<1>3. ASSUME NEW s \in Subject, NEW scope \in Selector, NEW ack \in BOOLEAN,
             authorize_and_promote(s, scope, ack)
      PROVE  OutboxTellsPromotions'
  <2>0. [scope |-> scope, revoked |-> FALSE] \in Promotion
    BY <1>3 DEF Promotion, authorize_and_promote, selector_valid
  <2>1. [scope |-> scope, revoked |-> FALSE] # NoPromotion
    BY <2>0, AuthorityAssumption
  <2>2. \A x \in Subject :
           promotion'[x] = IF x = s THEN [scope |-> scope, revoked |-> FALSE]
                           ELSE promotion[x]
    BY <1>3 DEF authorize_and_promote, TypeOK
  <2>3. outbox' = outbox \cup {<<"promoted", s>>} /\ ~Promoted(s)
    BY <1>3 DEF authorize_and_promote
  <2>4. ASSUME NEW x \in Subject
        PROVE  /\ <<"promoted", x>> \in outbox' <=> promotion'[x] # NoPromotion
               /\ <<"revoked", x>> \in outbox' <=>
                     promotion'[x] # NoPromotion /\ promotion'[x].revoked
    <3>1. CASE x = s
      <4>1. promotion'[x] # NoPromotion /\ ~promotion'[x].revoked
        BY <2>1, <2>2, <3>1
      <4>2. <<"revoked", x>> \notin outbox
        BY <2>3, <3>1 DEF OutboxTellsPromotions
      <4>3. <<"promoted", x>> \in outbox' /\ <<"revoked", x>> \notin outbox'
        BY <2>3, <3>1, <4>2
      <4> QED
        BY <4>1, <4>3
    <3>2. CASE x # s
      BY <2>2, <2>3, <3>2 DEF OutboxTellsPromotions, Promoted
    <3> QED
      BY <3>1, <3>2
  <2> QED
    BY <2>4 DEF OutboxTellsPromotions, Promoted
<1>4. ASSUME NEW s \in Subject, revoke_authorized_promotion(s)
      PROVE  OutboxTellsPromotions'
  <2>1. promotion[s] \in Promotion
    BY <1>4 DEF TypeOK, revoke_authorized_promotion, promotion_revocation_effects, Promoted
  <2>2. /\ promotion'[s] = [promotion[s] EXCEPT !.revoked = TRUE]
        /\ \A x \in Subject : x # s => promotion'[x] = promotion[x]
        /\ outbox' = outbox \cup {<<"revoked", s>>}
        /\ Promoted(s)
    BY <1>4 DEF revoke_authorized_promotion, promotion_revocation_effects, TypeOK
  <2>3. promotion'[s] \in Promotion /\ promotion'[s].revoked
    BY <2>1, <2>2 DEF Promotion
  <2>4. promotion'[s] # NoPromotion
    BY <2>3, AuthorityAssumption
  <2>5. ASSUME NEW x \in Subject
        PROVE  /\ <<"promoted", x>> \in outbox' <=> promotion'[x] # NoPromotion
               /\ <<"revoked", x>> \in outbox' <=>
                     promotion'[x] # NoPromotion /\ promotion'[x].revoked
    <3>1. CASE x = s
      BY <2>2, <2>3, <2>4, <3>1 DEF OutboxTellsPromotions, Promoted
    <3>2. CASE x # s
      BY <2>2, <3>2 DEF OutboxTellsPromotions, Promoted
    <3> QED
      BY <3>1, <3>2
  <2> QED
    BY <2>5 DEF OutboxTellsPromotions, Promoted
<1> QED
  BY <1>1, <1>2, <1>3, <1>4
     DEF Next, vars, qualify, Tick, create_authorized_binding, restrict_injection_binding

\* Two current subjects of one correction are the same.
LEMMA CurrentIsOne ==
    \A x, s \in Subject : IsCurrent(x) /\ IsCurrent(s) /\ x[1] = s[1] => x = s
BY SubjectParts DEF IsCurrent

LEMMA StepOutboxTellsWhatIsActive ==
    AuthorityInv /\ [Next]_vars => OutboxTellsWhatIsActive'
<1> SUFFICES ASSUME AuthorityInv, [Next]_vars, NEW x \in Subject, IsCurrent(x)'
             PROVE  (x \in Replayed)' <=> status'[x[1]] = "ACTIVE"
  BY DEF OutboxTellsWhatIsActive
<1>0. TypeOK /\ x[1] \in Correction
  BY DEF AuthorityInv, Subject
<1>a. IsCurrent(x) => (x \in Replayed <=> status[x[1]] = "ACTIVE")
  BY DEF AuthorityInv, OutboxTellsWhatIsActive
<1> DEFINE Goal == (x \in Replayed)' <=> status'[x[1]] = "ACTIVE"
<1>1. ASSUME UNCHANGED <<revision, status, outbox>> PROVE Goal
  BY <1>1, <1>a DEF Replayed, IsCurrent
<1>2. ASSUME NEW c \in Correction, NEW s \in Subject \cup {NoSubject},
             insert_correction_revision(c, s)
      PROVE  Goal
  <2>1. x = Minted(c) \/ (x[1] # c /\ IsCurrent(x))
    BY <1>0, <1>2, InsertFacts
  <2>2. outbox' = IF s = NoSubject THEN outbox ELSE outbox \cup {<<"superseded", s>>}
    BY <1>0, <1>2, InsertFacts
  <2>3. status'[x[1]] = IF x[1] = c THEN "CORRECTION_PROPOSED"
                        ELSE IF s # NoSubject /\ x[1] = s[1] THEN "SUPERSEDED"
                        ELSE status[x[1]]
    BY <1>0, <1>2, InsertFacts
  <2>4. CASE x = Minted(c)
    <3>1. ~Promoted(x)
      BY <1>0, <1>2, <2>4, InsertFacts DEF AuthorityInv, PromotedIsQualified
    <3>2. <<"promoted", x>> \notin outbox
      BY <3>1 DEF AuthorityInv, OutboxTellsPromotions
    <3>3. <<"promoted", x>> \notin outbox'
      BY <2>2, <3>2
    <3>4. x[1] = c
      BY <2>4 DEF Minted
    <3> QED
      BY <2>3, <3>3, <3>4 DEF Replayed
  <2>5. CASE x[1] # c /\ IsCurrent(x) /\ s # NoSubject /\ x[1] = s[1]
    <3>1. s \in Subject /\ IsCurrent(s)
      BY <1>0, <1>2, <2>5, InsertFacts DEF MaySupersede
    <3>2. x = s
      BY <2>5, <3>1, CurrentIsOne
    <3> QED
      BY <2>2, <2>3, <2>5, <3>2 DEF Replayed
  <2>6. CASE x[1] # c /\ IsCurrent(x) /\ ~(s # NoSubject /\ x[1] = s[1])
    <3>1. \A k \in {"promoted", "revoked", "superseded"} :
             <<k, x>> \in outbox' <=> <<k, x>> \in outbox
      BY <2>2, <2>6
    <3>2. (x \in Replayed)' <=> x \in Replayed
      BY <3>1 DEF Replayed
    <3> QED
      BY <1>a, <2>3, <2>6, <3>2
  <2> QED
    BY <2>1, <2>4, <2>5, <2>6
<1>3. ASSUME NEW s \in Subject, NEW scope \in Selector, NEW ack \in BOOLEAN,
             authorize_and_promote(s, scope, ack)
      PROVE  Goal
  <2>1. IsCurrent(x) /\ IsCurrent(s) /\ outbox' = outbox \cup {<<"promoted", s>>}
    BY <1>3 DEF authorize_and_promote, IsCurrent
  <2>2. status'[x[1]] = IF x[1] = s[1] THEN "ACTIVE" ELSE status[x[1]]
    BY <1>0, <1>3 DEF authorize_and_promote, TypeOK
  <2>3. CASE x[1] = s[1]
    <3>1. x = s
      BY <2>1, <2>3, CurrentIsOne
    <3>2. <<"revoked", s>> \notin outbox
      BY <1>3 DEF AuthorityInv, OutboxTellsPromotions, authorize_and_promote
    <3>3. <<"superseded", s>> \notin outbox
      BY <1>3 DEF AuthorityInv, SupersededIsTerminal, authorize_and_promote
    <3> QED
      BY <2>1, <2>2, <2>3, <3>1, <3>2, <3>3 DEF Replayed
  <2>4. CASE x[1] # s[1]
    <3>1. (x \in Replayed)' <=> x \in Replayed
      BY <2>1, <2>4 DEF Replayed
    <3> QED
      BY <1>a, <2>1, <2>2, <2>4, <3>1
  <2> QED
    BY <2>3, <2>4
<1>4. ASSUME NEW s \in Subject, revoke_authorized_promotion(s)
      PROVE  Goal
  <2>1. IsCurrent(x) /\ outbox' = outbox \cup {<<"revoked", s>>}
    BY <1>4 DEF revoke_authorized_promotion, promotion_revocation_effects, IsCurrent
  <2>2. status'[x[1]] = IF IsCurrent(s) /\ x[1] = s[1] THEN "REVOKED" ELSE status[x[1]]
    BY <1>0, <1>4 DEF revoke_authorized_promotion, promotion_revocation_effects, TypeOK
  <2>3. CASE x = s
    BY <2>1, <2>2, <2>3 DEF Replayed
  <2>4. CASE x # s
    <3>1. (x \in Replayed)' <=> x \in Replayed
      BY <2>1, <2>4 DEF Replayed
    <3>2. ~(IsCurrent(s) /\ x[1] = s[1])
      BY <2>1, <2>4, CurrentIsOne
    <3> QED
      BY <1>a, <2>1, <2>2, <3>1, <3>2
  <2> QED
    BY <2>3, <2>4
<1> HIDE DEF Goal
<1>5. Goal
  BY <1>1, <1>2, <1>3, <1>4
     DEF Next, vars, qualify, Tick, create_authorized_binding, restrict_injection_binding
<1> QED
  BY <1>5 DEF Goal

-----------------------------------------------------------------------------
(* Supersession stays a chain.                                             *)

\* The successor edges of a state: the correction that the current revision of
\* e supersedes, if it supersedes one.
HasNext(e) == revision[e] > 0 /\ supersedes[Current(e)] # NoSubject
NextOf(e) == supersedes[Current(e)][1]

\* A set with d that no edge leaves holds the chain of d.
ClosedUnder(S) == \A e \in Correction \cap S : HasNext(e) => NextOf(e) \in S

LEMMA NextTyped ==
    ASSUME TypeOK, NEW e \in Correction, HasNext(e)
    PROVE  NextOf(e) \in Correction
<1>1. Current(e) \in Subject
  BY AuthorityAssumption DEF Current, HasNext, TypeOK, Subject
<1>2. supersedes[Current(e)] \in Subject
  BY <1>1 DEF HasNext, TypeOK
<1> QED
  BY <1>2 DEF NextOf, Subject

LEMMA ChainHolds ==
    ASSUME NEW d \in Correction
    PROVE  /\ d \in Chain(d) /\ Chain(d) \subseteq Correction
           /\ TypeOK => ClosedUnder(Chain(d))
           /\ \A S : d \in S /\ S \subseteq Correction /\ ClosedUnder(S) => Chain(d) \subseteq S
<1>1. /\ d \in Chain(d) /\ Chain(d) \subseteq Correction
      /\ SupersededBy(Chain(d)) \subseteq Chain(d)
      /\ \A S : d \in S /\ SupersededBy(S) \subseteq S => Chain(d) \subseteq S
  BY ChainIsClosure DEF ChainIsLeastClosed
<1>2. ASSUME TypeOK, NEW e \in Chain(d), HasNext(e)
      PROVE  NextOf(e) \in Chain(d)
  <2>1. e \in Correction
    BY <1>1
  <2>2. NextOf(e) \in Correction
    BY <1>2, <2>1, NextTyped
  <2>3. NextOf(e) \in SupersededBy(Chain(d))
    BY <1>2, <2>2 DEF SupersededBy, HasNext, NextOf
  <2> QED
    BY <1>1, <2>3
<1>3. ASSUME NEW S, S \subseteq Correction, ClosedUnder(S)
      PROVE  SupersededBy(S) \subseteq S
  BY <1>3 DEF SupersededBy, ClosedUnder, HasNext, NextOf
<1> QED
  BY <1>1, <1>2, <1>3 DEF ClosedUnder

\* The last of these facts, also of the next state.
ChainInside ==
    \A d \in Correction : \A S :
        d \in S /\ S \subseteq Correction /\ ClosedUnder(S) => Chain(d) \subseteq S

LEMMA ChainIsInside == ChainInside
BY ChainHolds DEF ChainInside

LEMMA ChainIsInsideNext == ChainInside'
BY ChainIsInside, PTL

LEMMA StepSupersessionIsChain ==
    AuthorityInv /\ [Next]_vars => SupersessionIsChain'
<1> SUFFICES ASSUME AuthorityInv, [Next]_vars PROVE SupersessionIsChain'
  OBVIOUS
<1>0. TypeOK /\ SupersededIsTerminal /\ SupersessionIsChain
  BY DEF AuthorityInv
<1>1. ASSUME UNCHANGED <<revision, supersedes>> PROVE SupersessionIsChain'
  <2>1. ASSUME NEW c \in Correction, HasNext(c)' PROVE c \notin Chain(NextOf(c))'
    <3> DEFINE d == NextOf(c)
    <3>1. HasNext(c) /\ NextOf(c)' = d
      BY <1>1, <2>1 DEF HasNext, NextOf, Current
    <3>2. d \in Correction
      BY <1>0, <3>1, NextTyped
    <3>3. c \notin Chain(d)
      BY <1>0, <3>1 DEF SupersessionIsChain, HasNext, NextOf
    <3>4. PICK S : S = Chain(d)
      OBVIOUS
    <3>5. d \in S /\ S \subseteq Correction /\ ClosedUnder(S)
      BY <1>0, <3>2, <3>4, ChainHolds
    <3>6. ClosedUnder(S)'
      BY <1>1, <3>5 DEF ClosedUnder, HasNext, NextOf, Current
    <3>7. PICK t : t = d
      OBVIOUS
    <3>8. Chain(t)' \subseteq S
      BY <3>2, <3>5, <3>6, <3>7, ChainIsInsideNext DEF ChainInside
    <3> QED
      BY <3>1, <3>3, <3>4, <3>7, <3>8
  <2> QED
    BY <1>0, <1>1, <2>1 DEF SupersessionIsChain, HasNext, NextOf
<1>2. ASSUME NEW c \in Correction, NEW s \in Subject \cup {NoSubject},
             insert_correction_revision(c, s)
      PROVE  SupersessionIsChain'
  <2>1. /\ Minted(c) \in Subject
        /\ \A x \in Subject : supersedes'[x] = IF x = Minted(c) THEN s ELSE supersedes[x]
        /\ s # NoSubject => s \in Subject /\ s[1] \in Correction /\ MaySupersede(c, s)
    BY <1>0, <1>2, InsertFacts
  <2>2. ASSUME NEW r \in Subject, NEW x \in Subject,
               supersedes'[r] = supersedes'[x], supersedes'[r] # NoSubject
        PROVE  r = x
    <3>1. ASSUME s # NoSubject, NEW y \in Subject PROVE supersedes[y] # s
      BY <1>0, <2>1, <3>1 DEF MaySupersede, SupersededIsTerminal
    <3> QED
      BY <1>0, <2>1, <2>2, <3>1 DEF SupersessionIsChain
  \* The edges of the next state: those of c go, and one to s[1] may come.
  <2>3. /\ HasNext(c)' <=> s # NoSubject
        /\ s # NoSubject => NextOf(c)' = s[1]
    <3>1. revision'[c] > 0 /\ Current(c)' = Minted(c)
      BY <1>0, <1>2, AuthorityAssumption
         DEF insert_correction_revision, TypeOK, Current, Minted
    <3> QED
      BY <2>1, <3>1 DEF HasNext, NextOf
  <2>4. ASSUME NEW e \in Correction, e # c
        PROVE  (HasNext(e)' <=> HasNext(e)) /\ (HasNext(e) => NextOf(e)' = NextOf(e))
    <3>1. revision'[e] = revision[e]
      BY <1>0, <1>2, <2>4 DEF insert_correction_revision, TypeOK
    <3>2. CASE revision[e] > 0
      <4>1. Current(e) \in Subject /\ Current(e) # Minted(c) /\ Current(e)' = Current(e)
        BY <1>0, <2>4, <3>1, <3>2, AuthorityAssumption DEF Current, Minted, TypeOK, Subject
      <4>2. supersedes'[Current(e)] = supersedes[Current(e)]
        BY <2>1, <4>1
      <4> QED
        BY <3>1, <4>1, <4>2 DEF HasNext, NextOf
    <3>3. CASE ~(revision[e] > 0)
      BY <3>1, <3>3 DEF HasNext
    <3> QED
      BY <3>2, <3>3
  \* Sets closed before that stay so.
  <2>5. ASSUME NEW S, ClosedUnder(S), c \in S /\ s # NoSubject => s[1] \in S
        PROVE  ClosedUnder(S)'
    BY <2>3, <2>4, <2>5 DEF ClosedUnder
  <2>6. ASSUME NEW e \in Correction, HasNext(e)' PROVE e \notin Chain(NextOf(e))'
    <3>1. PICK d : d = NextOf(e)'
      OBVIOUS
    <3>2. SUFFICES \E S : d \in Correction /\ d \in S /\ S \subseteq Correction
                          /\ ClosedUnder(S)' /\ e \notin S
      <4>1. PICK S : d \in Correction /\ d \in S /\ S \subseteq Correction
                     /\ ClosedUnder(S)' /\ e \notin S
        BY <3>2
      <4>2. Chain(d)' \subseteq S
        BY <4>1, ChainIsInsideNext DEF ChainInside
      <4> QED
        BY <3>1, <4>1, <4>2
    <3>3. CASE e = c
      <4>1. s # NoSubject /\ d = s[1] /\ d \in Correction
        BY <2>1, <2>3, <2>6, <3>1, <3>3
      <4>2. PICK S : S = Chain(s[1])
        OBVIOUS
      <4>3. d \in S /\ S \subseteq Correction /\ ClosedUnder(S)
        BY <1>0, <4>1, <4>2, ChainHolds
      <4>4. c \notin S
        BY <2>1, <4>1, <4>2 DEF MaySupersede
      <4> QED
        BY <2>5, <3>3, <4>1, <4>3, <4>4
    <3>4. CASE e # c
      <4>1. HasNext(e) /\ d = NextOf(e) /\ d \in Correction
        BY <1>0, <2>4, <2>6, <3>1, <3>4, NextTyped
      <4>2. e \notin Chain(d)
        BY <1>0, <4>1 DEF SupersessionIsChain, HasNext, NextOf
      <4>3. PICK A : A = Chain(d)
        OBVIOUS
      <4>4. d \in A /\ A \subseteq Correction /\ ClosedUnder(A) /\ e \notin A
        BY <1>0, <4>1, <4>2, <4>3, ChainHolds
      <4>5. CASE c \notin A \/ s = NoSubject
        BY <2>5, <4>1, <4>4, <4>5
      <4>6. CASE c \in A /\ s # NoSubject
        <5>1. PICK B : B = Chain(s[1])
          OBVIOUS
        <5>2. s[1] \in B /\ B \subseteq Correction /\ ClosedUnder(B) /\ c \notin B
          BY <1>0, <2>1, <4>6, <5>1, ChainHolds DEF MaySupersede
        <5>3. e \notin B
          <6>1. ASSUME e \in B PROVE FALSE
            <7>1. d \in B
              BY <4>1, <5>2, <6>1 DEF ClosedUnder
            <7>2. Chain(d) \subseteq B
              BY <4>1, <5>2, <7>1, ChainHolds
            <7> QED
              BY <4>3, <4>6, <5>2, <7>2
          <6> QED
            BY <6>1
        <5>4. ClosedUnder(A \cup B)
          BY <4>4, <5>2 DEF ClosedUnder
        <5>5. ClosedUnder(A \cup B)'
          BY <2>5, <5>2, <5>4
        <5> QED
          BY <4>1, <4>4, <5>2, <5>3, <5>5
      <4> QED
        BY <4>5, <4>6
    <3> QED
      BY <3>3, <3>4
  <2> QED
    BY <2>2, <2>6 DEF SupersessionIsChain, HasNext, NextOf
\* Nothing else touches the revisions and what they supersede.
<1>3. \/ UNCHANGED <<revision, supersedes>>
      \/ \E c \in Correction, s \in Subject \cup {NoSubject} : insert_correction_revision(c, s)
  <2>1. ASSUME NEW s \in Subject,
               \/ qualify(s) \/ revoke_authorized_promotion(s)
               \/ \E scope \in Selector, ack \in BOOLEAN : authorize_and_promote(s, scope, ack)
        PROVE  UNCHANGED <<revision, supersedes>>
    BY <2>1 DEF qualify, authorize_and_promote, revoke_authorized_promotion
  <2>2. ASSUME NEW s \in Subject, NEW b \in Binding, NEW a \in Adapter,
               NEW sel \in Selector, NEW d \in Digest, NEW t \in Instant,
               create_authorized_binding(b, s, a, sel, d, t)
        PROVE  UNCHANGED <<revision, supersedes>>
    BY <2>2 DEF create_authorized_binding
  <2>3. ASSUME NEW b \in Binding, NEW deactivate \in BOOLEAN, NEW t \in Instant,
               restrict_injection_binding(b, deactivate, t)
        PROVE  UNCHANGED <<revision, supersedes>>
    BY <2>3 DEF restrict_injection_binding
  <2>4. ASSUME Tick \/ UNCHANGED vars PROVE UNCHANGED <<revision, supersedes>>
    BY <2>4 DEF Tick, vars
  <2> QED
    BY <2>1, <2>2, <2>3, <2>4 DEF Next
<1> QED
  BY <1>1, <1>2, <1>3

-----------------------------------------------------------------------------
(* The theorems                                                            *)

LEMMA InitAuthorityInv == Init => AuthorityInv
<1> SUFFICES ASSUME Init PROVE AuthorityInv
  OBVIOUS
<1>1. TypeOK
  BY InitTyped
<1>2. PromotedIsQualified /\ BoundIsPromoted /\ OutboxTellsPromotions
  BY DEF Init, PromotedIsQualified, BoundIsPromoted, OutboxTellsPromotions, Promoted
<1>3. SupersededIsTerminal
  BY AuthorityAssumption DEF Init, SupersededIsTerminal
<1>4. OutboxTellsWhatIsActive
  BY DEF Init, OutboxTellsWhatIsActive, Replayed, IsCurrent, Subject
<1>5. SupersessionIsChain
  BY DEF Init, SupersessionIsChain
<1> QED
  BY <1>1, <1>2, <1>3, <1>4, <1>5 DEF AuthorityInv

LEMMA StepAuthorityInv == AuthorityInv /\ [Next]_vars => AuthorityInv'
<1> SUFFICES ASSUME AuthorityInv, [Next]_vars PROVE AuthorityInv'
  OBVIOUS
<1>1. TypeOK' /\ PromotedIsQualified' /\ BoundIsPromoted'
  BY StepTyped, StepPromotedIsQualified, StepBoundIsPromoted DEF AuthorityInv
<1>2. SupersededIsTerminal' /\ OutboxTellsPromotions'
  BY StepSupersededIsTerminal, StepOutboxTellsPromotions DEF AuthorityInv
<1>3. OutboxTellsWhatIsActive' /\ SupersessionIsChain'
  BY StepOutboxTellsWhatIsActive, StepSupersessionIsChain
<1> QED
  BY <1>1, <1>2, <1>3 DEF AuthorityInv

\* The invariant of the authority tables, whatever is created, revised,
\* promoted, bound, restricted and revoked, in whatever order.
THEOREM AuthorityInvariance == Spec => []AuthorityInv
BY InitAuthorityInv, StepAuthorityInv, PTL DEF Spec

\* Every row the authorizer's functions write is of its table's type; no
\* promotion has an empty scope and no binding an empty selector.
THEOREM AuthorityTypeCorrect == Spec => []TypeOK
<1>1. AuthorityInv => TypeOK
  BY DEF AuthorityInv
<1> QED
  BY <1>1, AuthorityInvariance, PTL

\* A binding in the view active_injection_bindings belongs to a qualified
\* subject, stays within the authorized scope, and nothing superseded its
\* subject: what the runtime may execute under is what was authorized.
THEOREM EffectiveBindingsAreAuthorized == Spec => []EffectiveIsAuthorized
<1>1. AuthorityInv => EffectiveIsAuthorized
  <2> SUFFICES ASSUME AuthorityInv, NEW b \in Binding, Effective(b)
               PROVE  LET s == binding[b].subject IN
                      /\ s \in qualified
                      /\ promotion[s].scope \subseteq binding[b].selector
                      /\ \A r \in Subject : supersedes[r] # s
    BY DEF EffectiveIsAuthorized
  <2> DEFINE s == binding[b].subject
  <2>1. binding[b] # NoBinding /\ status[s[1]] = "ACTIVE"
    BY DEF Effective
  <2>2. s \in Subject
    BY <2>1 DEF AuthorityInv, TypeOK, BindingRow
  <2>3. Promoted(s) /\ promotion[s].scope \subseteq binding[b].selector
    BY <2>1 DEF AuthorityInv, BoundIsPromoted
  <2>4. s \in qualified
    BY <2>2, <2>3 DEF AuthorityInv, PromotedIsQualified
  <2>5. ~Terminal(s[1])
    BY <2>1 DEF Terminal
  <2>6. \A r \in Subject : supersedes[r] # s
    BY <2>2, <2>5 DEF AuthorityInv, SupersededIsTerminal
  <2> QED
    BY <2>3, <2>4, <2>6
<1> QED
  BY <1>1, AuthorityInvariance, PTL

\* A subject is superseded by at most one other, and the cycle check of the
\* insert trigger keeps every correction from superseding itself through
\* others, for any number of corrections.
THEOREM SupersessionsFormChains == Spec => []SupersessionIsChain
<1>1. AuthorityInv => SupersessionIsChain
  BY DEF AuthorityInv
<1> QED
  BY <1>1, AuthorityInvariance, PTL

\* A consumer of the outbox that replays its rows agrees with the database
\* about which current revisions are active.
THEOREM OutboxAgreesWithTables == Spec => []OutboxTellsWhatIsActive
<1>1. AuthorityInv => OutboxTellsWhatIsActive
  BY DEF AuthorityInv
<1> QED
  BY <1>1, AuthorityInvariance, PTL

-----------------------------------------------------------------------------
(* The tables implement the view.                                          *)

\* A binding that is in the view after a step was in it before the step.
LEMMA EffectiveOnlyLeaves ==
    ASSUME AuthorityInv, [Next]_vars, NEW o \in Binding, binding[o] # NoBinding,
           Effective(o)'
    PROVE  Effective(o)
<1> DEFINE x == binding[o].subject
<1>1. TypeOK
  BY DEF AuthorityInv
<1>2. x \in Subject /\ x[1] \in Correction /\ x[2] \in Nat /\ binding[o].expires \in Nat
  BY <1>1, AuthorityAssumption DEF TypeOK, BindingRow, Instant, Never, Subject
<1>3. Promoted(x) /\ Exists(x)
  BY <1>2 DEF AuthorityInv, BoundIsPromoted, PromotedIsQualified
<1>4. /\ binding'[o].subject = x
      /\ binding'[o].expires <= binding[o].expires
      /\ binding'[o].active => binding[o].active
  BY <1>1, BindingStays
<1> HIDE DEF x
<1>5. /\ binding'[o].active /\ ~promotion'[x].revoked /\ binding'[o].expires > now'
      /\ x[2] = revision'[x[1]] /\ status'[x[1]] = "ACTIVE"
  BY <1>4 DEF Effective, IsCurrent
<1>6. ~promotion[x].revoked
  BY <1>1, <1>2, <1>3, <1>5, PromotionStays
<1>7. now \in Nat /\ now' \in Nat /\ now <= now'
  <2>1. now' = now \/ now' = now + 1
    BY DEF Next, vars, qualify, Tick, insert_correction_revision, create_authorized_binding,
           authorize_and_promote, restrict_injection_binding, revoke_authorized_promotion
  <2>2. now \in Nat
    BY <1>1, AuthorityAssumption DEF TypeOK
  <2> QED
    BY <2>1, <2>2
<1>8. binding[o].expires > now
  <2>1. binding'[o].expires \in Nat
    <3>1. binding'[o] # NoBinding /\ TypeOK'
      BY <1>1, BindingStays, StepTyped
    <3> QED
      BY <3>1, AuthorityAssumption DEF TypeOK, BindingRow, Instant, Never
  <2> QED
    BY <1>2, <1>4, <1>5, <1>7, <2>1
<1>9. IsCurrent(x) /\ status[x[1]] = "ACTIVE"
  <2>1. ASSUME NEW c \in Correction, NEW s \in Subject \cup {NoSubject},
               insert_correction_revision(c, s)
        PROVE  IsCurrent(x) /\ status[x[1]] = "ACTIVE"
    <3>1. x = Minted(c) \/ (x[1] # c /\ IsCurrent(x))
      BY <1>1, <1>2, <1>5, <2>1, InsertFacts DEF IsCurrent
    <3>2. x # Minted(c)
      BY <1>1, <1>3, <2>1, InsertFacts
    <3>3. status'[x[1]] = IF x[1] = c THEN "CORRECTION_PROPOSED"
                          ELSE IF s # NoSubject /\ x[1] = s[1] THEN "SUPERSEDED"
                          ELSE status[x[1]]
      BY <1>1, <1>2, <2>1, InsertFacts
    <3> QED
      BY <1>5, <3>1, <3>2, <3>3
  <2>2. ASSUME NEW s \in Subject, NEW scope \in Selector, NEW ack \in BOOLEAN,
               authorize_and_promote(s, scope, ack)
        PROVE  IsCurrent(x) /\ status[x[1]] = "ACTIVE"
    <3>1. IsCurrent(x) /\ IsCurrent(s) /\ ~Promoted(s)
      BY <1>5, <2>2 DEF authorize_and_promote, IsCurrent
    <3>2. x # s
      BY <1>3, <3>1
    <3>3. x[1] # s[1]
      BY <1>2, <3>1, <3>2, CurrentIsOne
    <3> QED
      BY <1>1, <1>2, <1>5, <2>2, <3>1, <3>3 DEF authorize_and_promote, TypeOK
  <2>3. ASSUME NEW s \in Subject, revoke_authorized_promotion(s)
        PROVE  IsCurrent(x) /\ status[x[1]] = "ACTIVE"
    BY <1>1, <1>2, <1>5, <2>3 DEF revoke_authorized_promotion,
           promotion_revocation_effects, IsCurrent, TypeOK
  <2>4. ASSUME UNCHANGED <<revision, status>>
        PROVE  IsCurrent(x) /\ status[x[1]] = "ACTIVE"
    BY <1>5, <2>4 DEF IsCurrent
  <2> QED
    BY <2>1, <2>2, <2>3, <2>4
       DEF Next, vars, qualify, Tick, create_authorized_binding, restrict_injection_binding
<1> QED
  BY <1>4, <1>5, <1>6, <1>8, <1>9 DEF Effective, x

\* A binding that is created enters the view, or is dark from the start if it
\* has expired meanwhile, and nothing else changes there.
LEMMA CreateBinds ==
    ASSUME AuthorityInv, NEW b \in Binding, NEW s \in Subject, NEW a \in Adapter,
           NEW sel \in Selector, NEW d \in Digest, NEW t \in Instant,
           create_authorized_binding(b, s, a, sel, d, t)
    PROVE  View!Bind(b)
<1>1. TypeOK
  BY DEF AuthorityInv
<1> DEFINE row == [subject |-> s, adapter |-> a, selector |-> sel, digest |-> d,
     expires |-> t, active |-> TRUE]
<1>2. binding'[b] = row /\ \A o \in Binding : o # b => binding'[o] = binding[o]
  BY <1>1 DEF create_authorized_binding, TypeOK
<1>3. row \in BindingRow
  BY DEF BindingRow, create_authorized_binding, selector_within_scope, selector_valid
<1>4. row # NoBinding
  BY <1>3, AuthorityAssumption
<1>5. /\ UNCHANGED <<revision, status, promotion, now>> /\ binding[b] = NoBinding
      /\ status[s[1]] = "ACTIVE" /\ ~promotion[s].revoked /\ IsCurrent(s)
  BY DEF create_authorized_binding
<1>6. binding'[b] # NoBinding
  BY <1>2, <1>4
<1>7. \A o \in Binding : o # b => (Effective(o)' <=> Effective(o))
  BY <1>2, <1>5 DEF Effective, IsCurrent
<1> HIDE DEF row
<1>8. Standing[b] = "absent"
  BY <1>5 DEF Standing
<1>9. \A o \in Binding : o # b => Standing'[o] = Standing[o]
  BY <1>2, <1>7 DEF Standing
<1>10. Standing'[b] \in {"live", "dark"}
  BY <1>6 DEF Standing
<1>11. Standing' = [Standing EXCEPT ![b] = Standing'[b]]
  BY <1>9 DEF Standing
<1> QED
  BY <1>8, <1>10, <1>11 DEF View!Bind

\* Every other step takes bindings out of the view, or leaves it alone.
LEMMA OthersDarken ==
    ASSUME AuthorityInv, [Next]_vars,
           \A o \in Binding : binding[o] = NoBinding => binding'[o] = NoBinding
    PROVE  [View!BindingViewNext]_Standing
<1>1. \A o \in Binding : binding'[o] = NoBinding <=> binding[o] = NoBinding
  BY BindingStays DEF AuthorityInv
<1>2. \A o \in Binding : binding[o] # NoBinding /\ Effective(o)' => Effective(o)
  BY EffectiveOnlyLeaves
<1> DEFINE S == {o \in Binding : binding[o] # NoBinding /\ Effective(o) /\ ~Effective(o)'}
<1>3. S \subseteq View!Live
  BY DEF View!Live, Standing
<1>4. \A o \in Binding : Standing'[o] = IF o \in S THEN "dark" ELSE Standing[o]
  BY <1>1, <1>2 DEF Standing
<1>5. Standing' = [o \in Binding |-> IF o \in S THEN "dark" ELSE Standing[o]]
  BY <1>4 DEF Standing
<1>6. S = {} => UNCHANGED Standing
  BY <1>5 DEF Standing
<1> HIDE DEF S
<1>7. S # {} => View!Darken(S)
  BY <1>3, <1>5 DEF View!Darken
<1> QED
  BY <1>3, <1>6, <1>7 DEF View!BindingViewNext

\* Authority never comes back: the tables implement the view, in which a
\* binding enters once and, revoked, superseded, revised over, restricted or
\* expired, never returns.
THEOREM AuthorityImplementsBindingView == Spec => ImplementsBindingView
<1>1. Init => View!BindingViewInit
  BY DEF Init, View!BindingViewInit, Standing
<1>2. AuthorityInv /\ [Next]_vars => [View!BindingViewNext]_Standing
  <2> SUFFICES ASSUME AuthorityInv, [Next]_vars PROVE [View!BindingViewNext]_Standing
    OBVIOUS
  <2>1. ASSUME NEW b \in Binding, NEW s \in Subject, NEW a \in Adapter,
               NEW sel \in Selector, NEW d \in Digest, NEW t \in Instant,
               create_authorized_binding(b, s, a, sel, d, t)
        PROVE  [View!BindingViewNext]_Standing
    BY <2>1, CreateBinds DEF View!BindingViewNext
  <2>2. ASSUME ~\E s \in Subject, b \in Binding, a \in Adapter, sel \in Selector,
                 d \in Digest, t \in Instant :
                   create_authorized_binding(b, s, a, sel, d, t)
        PROVE  [View!BindingViewNext]_Standing
    <3>1. \A o \in Binding : binding[o] = NoBinding => binding'[o] = NoBinding
      BY <2>2, OnlyCreateAdds DEF AuthorityInv
    <3> QED
      BY <3>1, OthersDarken
  <2> QED
    BY <2>1, <2>2
<1> QED
  BY <1>1, <1>2, AuthorityInvariance, PTL
     DEF Spec, ImplementsBindingView, View!BindingViewSpec
=============================================================================
