SPECIFICATION Spec
CONSTANTS
  c1 = c1
  c2 = c2
  c3 = c3
  p1 = p1
  p2 = p2
  p3 = p3
  Callers = {c1, c2, c3}
  Processes = {p1, p2, p3}
  ProcessOf <- ThreeProcesses
  HostOf <- OneHost
  Tokens = {t1, t2, t3, t4, t5, t6, t7, t8}
  NoToken = NoToken
  NoFile = NoFile
  Transactions = {x1, x2, x3}
  Replacements = {x3}
  MaxCrashes = 1
  SentinelLeaks = FALSE
INVARIANTS
  MutualExclusion
PROPERTIES
  LiveOwnerKept
  Serializable
CHECK_DEADLOCK FALSE
