\* Two processes, two keys, an unprotected and a protected effect on one target.
SPECIFICATION Spec
CONSTANTS
  Proc = {p1, p2}
  Op = {o1, o2}
  Key = {k1, k2}
  t1 = t1
  b1 = b1
  b2 = b2
  x1 = x1
  v1 = v1
  Target = {t1}
  Binding = {b1, b2}
  Protected = {b2}
  Payload = {x1}
  Effect <- GovernedEffects
  BoundEffect <- GovernedEffects
  Evidence = {v1, b1, b2}
  Report = {r1}
  Reconcilable <- PostgresReconcilable
  NoIntent = NoIntent
  NoOutcome = NoOutcome
  Blank = Blank
  NoOp = NoOp
  NoRequest = NoRequest
  NoReadback = NoReadback
SYMMETRY MCSymmetry
CONSTRAINT OnlyProtectedLost
INVARIANTS TypeOK AtMostOnceDispatch DispatchIsJournalled VerifiedWasObserved
PROPERTIES FailedWasMissed LostBindingDrains OutcomeFromVerifiedState JournalSpec
CHECK_DEADLOCK FALSE
