\* Revocation and supersession of corrections that are terminal already.
SPECIFICATION Spec
CONSTANTS
  i1 = i1
  l1 = l1
  l2 = l2
  Correction = {c1, c2}
  Incident = {i1}
  incidentOf <- OneIncident
  MaxRevision = 2
  MaxSubjects = 4
  Irreversible <- FirstRevisions
  Binding = {b1}
  Adapter = {a1}
  Digest = {g1}
  Selector <- NestedSelectors
  MaxTime = 1
  NoSubject = NoSubject
  NoPromotion = NoPromotion
  NoBinding = NoBinding
PROPERTY TerminalStatusStays
CHECK_DEADLOCK FALSE
