SPECIFICATION TimelySpec
CONSTANTS
  Keys = {k1, k2}
  Payloads = {m1, m2}
  ClaimTokens = {t1, t2, t3, t4}
  TTL = 3
  MaxRecords = 1
  MaxWait = 1
  Callers = {c1, c2}
  NoKey = NoKey
  NoPayload = NoPayload
  NoClaim = NoClaim
  DispatchTime = 1
SYMMETRY Symmetry
INVARIANTS
  TypeOK
  SentOncePerWindow
  AcceptedWasSent
PROPERTIES
  LiveRecordsKept
