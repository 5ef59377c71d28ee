SPECIFICATION Spec
CONSTANTS
  Definitions = {q1}
  EnrollmentIds = {e1}
  Subscribers = {u1}
  Plans <- TwoRevisions
  Executions = {c1, c2}
  Operators = {o1, o2}
  ClaimTokens = {t1, t2}
  NoLease = NoLease
  NoClaim = NoClaim
  NoKey = NoKey
  NoPayload = NoPayload
  LeaseMs = 1
  Limit = 1
  RetryDelay = 0
  MaxAttempts = 2
  MaxBusy = 2
  TTL = 2
  MaxRecords = 1
  MaxWait = 0
  DispatchTime = 1
SYMMETRY Symmetry
INVARIANTS
  TypeOK
  OncePerWindow
PROPERTIES
  NeverBack
  AdvancedWasSent
  UnfinishedKept
  AmbiguousLeftByReview
