\* One session after another while the journal, the view and the file change; and
\* every table of bindings.
SPECIFICATION PreflightSpec
CONSTANTS
  b1 = b1
  b2 = b2
  b3 = b3
  c1 = c1
  c2 = c2
  l1 = l1
  l2 = l2
  p1 = p1
  p2 = p2
  t1 = t1
  v1 = v1
  v2 = v2
  Op = {o1, o2}
  Key = {k1}
  Effect <- Effects
  BoundEffect <- Effects
  Evidence = {v1, v2}
  Report = {r1}
  Reconcilable <- PostgresReconcilable
  Binding = {b1, b2, b3}
  Correction = {c1, c2}
  Label = {l1, l2}
  Target = {t1}
  Payload = {p1, p2}
  Context <- Contexts
  row <- Rows
  Pinned = {b1, b2}
  payloadOf <- Payloads
  evidenceOf <- EvidenceRefs
  pinnedTarget = t1
  NoIntent = NoIntent
  NoOutcome = NoOutcome
  Blank = Blank
  Undecided = Undecided
  Nobody = Nobody
  NoFile = NoFile
  NoEffect = NoEffect
SYMMETRY MCSymmetry
INVARIANTS TypeOK PreparedWasInForce PreparedIsOnRecord ResolutionIsDetermined
PROPERTY SentGoverned
