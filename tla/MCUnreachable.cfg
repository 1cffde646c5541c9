SPECIFICATION Spec
CONSTANTS
  a1 = a1
  r1 = r1
  r2 = r2
  p1 = p1
  p2 = p2
  p3 = p3
  p4 = p4
  w1 = w1
  w2 = w2
  Authorization = {a1}
  AuthorizationOf <- OneMandate
  Release = {r1}
  Request = {p1}
  Worker = {w1}
  MaxAttempts = 2
  ReconcileAfter = 2
  LookupWindow = 2
  AbandonAfter = 2
  GrantTtl = 1
  Horizon = 2
  OperatorReconciles = FALSE
  ReadsMayFail = TRUE
  MayCrash = {}
CHECK_DEADLOCK FALSE
SYMMETRY Twins
INVARIANT OrderIsNotDisowned
