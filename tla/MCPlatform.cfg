SPECIFICATION MCSpec
CONSTANTS
  Call = {"c1", "c2", "c3"}
  HttpKey = {"kO"}
  CallKey <- MCCallKey
  Fingerprint <- MCFingerprint
  ReleaseKey = "kO"
  Tx = {"t1", "t2", "t3", "t4"}
  Kind <- MCKind
  RowOf <- MCRowOf
  f1 = f1
  f2 = f2
  s1 = s1
  s2 = s2
  s3 = s3
  Sku = {s1, s2, s3}
  NotOffered = NotOffered
  AgProducts <- MCProducts
  AgCatalogues <- MCCatalogues
  AgBounds <- MCBounds
  AgPrefer <- MCPrefer
  AgPlannerLines = 2
  AgMaxSteps = 6
  AgDraftLines = 2
  AgSearchLimit = 2
  AgChanges = 1
  GxRelease = {"r1", "r2"}
  GxHolder = {1, 2}
  GxTtl = 1
  GxHorizon = 3
  GxClockGoesBack = FALSE
  SqRows = 3
  SqLimit = 1
  SqTick = {1, 2}
  Payment = {"p1", "p2", "p3"}
  OtherAmount = {"p3"}
  NoPayment = NoPayment
  Shown = {"a", "b"}
  Changes = 2
  Loads = 3
  RzCall = {"c1", "c2"}
  RzPayment = {"p1", "p2"}
INVARIANTS
  ClaimIsExclusive AnswerIsOwn
  AppendsNeverCollide RecordedIffCommitted DefectsMeanDamage
  LinesWereChecked PlannerDecides
  ChargedIsTrue GrantRunsOnce EndsByItsOwnPayment OutcomesAreFacts
PROPERTIES
  TransactionsDoEnd RowsAreServed ShownNeverGoesBack
CHECK_DEADLOCK FALSE
