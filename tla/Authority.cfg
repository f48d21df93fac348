\* Three corrections of one incident that supersede one another in any order,
\* with four revisions in all, one binding and a clock with two instants.
SPECIFICATION Spec
CONSTANTS
  i1 = i1
  l1 = l1
  l2 = l2
  Correction = {c1, c2, c3}
  Incident = {i1}
  incidentOf <- OneIncident
  MaxRevision = 2
  MaxSubjects = 4
  Irreversible <- FirstRevisions
  Binding = {b1}
  Adapter = {a1}
  Digest = {g1}
  Selector <- NestedSelectors
  MaxTime = 1
  NoSubject = NoSubject
  NoPromotion = NoPromotion
  NoBinding = NoBinding
SYMMETRY MCSymmetry
INVARIANTS TypeOK EffectiveIsAuthorized SupersessionIsChain OutboxTellsWhatIsActive
PROPERTY ImplementsBindingView
CHECK_DEADLOCK FALSE
