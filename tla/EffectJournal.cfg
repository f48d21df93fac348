\* The journal of operations.py under an arbitrary client.
SPECIFICATION JournalSpec
CONSTANTS
  Op = {o1, o2}
  Key = {k1, k2}
  Effect = {e1, e2}
  BoundEffect = {e1, e2}
  Evidence = {v1, v2}
  Report = {r1, r2}
  Reconcilable <- InMemoryReconcilable
  NoIntent = NoIntent
  NoOutcome = NoOutcome
  Blank = Blank
SYMMETRY MCSymmetry
INVARIANTS JournalTypeOK KeyIdentifiesOneOperation LogSettlesOnce OutcomeHasProvenance
PROPERTIES AppendOnly ImplementsLifecycle
CHECK_DEADLOCK FALSE
