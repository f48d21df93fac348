\* The documented order of the lifecycle, over the PostgreSQL journal.
SPECIFICATION Spec
CONSTANTS
  Proc = {p1, p2}
  Op = {o1, o2}
  Key = {k1, k2}
  t1 = t1
  b1 = b1
  b2 = b2
  x1 = x1
  v1 = v1
  Target = {t1}
  Binding = {b1}
  Protected = {}
  Payload = {x1}
  Effect <- SharedEffects
  BoundEffect <- SharedEffects
  Evidence = {v1, b1}
  Report = {r1}
  Reconcilable <- PostgresReconcilable
  NoIntent = NoIntent
  NoOutcome = NoOutcome
  Blank = Blank
  NoOp = NoOp
  NoRequest = NoRequest
  NoReadback = NoReadback
INVARIANT AttemptPrecedesResolution
CHECK_DEADLOCK FALSE
