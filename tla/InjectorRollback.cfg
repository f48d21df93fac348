\* Rollback of an operation whose effect a newer operation has published again.
SPECIFICATION Spec
CONSTANTS
  Proc = {p1}
  o1 = o1
  o2 = o2
  o3 = o3
  d1 = d1
  d2 = d2
  Op = {o1, o2, o3}
  Digest = {d1, d2}
  digestOf <- SharedEffect
  NoOp = NoOp
PROPERTY RollbackRestoresPrior
