SPECIFICATION Spec
CONSTANTS
  a1 = a1
  r1 = r1
  r2 = r2
  p1 = p1
  p2 = p2
  p3 = p3
  p4 = p4
  w1 = w1
  w2 = w2
  Authorization = {a1}
  AuthorizationOf <- OneMandate
  Release = {r1, r2}
  Request = {p1, p2, p3, p4}
  Worker = {}
  MaxAttempts = 2
  ReconcileAfter = 1
  LookupWindow = 1
  AbandonAfter = 1
  GrantTtl = 0
  Horizon = 1
  OperatorReconciles = FALSE
  ReadsMayFail = FALSE
  MayCrash = {}
CHECK_DEADLOCK FALSE
SYMMETRY Twins
VIEW MCRead
INVARIANTS OneActiveRelease OneChargePerMandate
