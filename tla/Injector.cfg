\* Two concurrent callers; two of the three operations have the same effect.
SPECIFICATION Spec
CONSTANTS
  Proc = {p1, p2}
  o1 = o1
  o2 = o2
  o3 = o3
  d1 = d1
  d2 = d2
  Op = {o1, o2, o3}
  Digest = {d1, d2}
  digestOf <- SharedEffect
  NoOp = NoOp
SYMMETRY MCSymmetry
INVARIANTS TypeOK PointersResolve VerifiedReadIsAtomic
