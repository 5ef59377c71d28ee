SPECIFICATION Spec
CONSTANTS
  Definitions = {q1}
  EnrollmentIds = {e1, e2}
  Subscribers = {u1, u2}
  Plans <- TwoSends
  Executions = {c1}
  Operators = {o1}
  ClaimTokens = {t1, t2, t3}
  NoLease = NoLease
  NoClaim = NoClaim
  NoKey = NoKey
  NoPayload = NoPayload
  LeaseMs = 1
  Limit = 1
  RetryDelay = 0
  MaxAttempts = 2
  MaxBusy = 3
  TTL = 2
  MaxRecords = 1
  MaxWait = 0
  DispatchTime = 1
SYMMETRY Symmetry
INVARIANTS
  AmbiguousReconcilable
