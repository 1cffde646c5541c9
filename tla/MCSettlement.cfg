SPECIFICATION DeliverySpec
CONSTANTS
  a1 = a1
  r1 = r1
  r2 = r2
  p1 = p1
  p2 = p2
  p3 = p3
  p4 = p4
  w1 = w1
  w2 = w2
  Authorization = {a1}
  AuthorizationOf <- OneMandate
  Release = {r1}
  Request = {p1, p2}
  Worker = {w1}
  MaxAttempts = 3
  ReconcileAfter = 1
  LookupWindow = 2
  AbandonAfter = 4
  GrantTtl = 2
  Horizon = 4
  OperatorReconciles = FALSE
  ReadsMayFail = FALSE
  MayCrash = {}
CHECK_DEADLOCK FALSE

PROPERTY CapturedIsSettled
