SPECIFICATION Spec
CONSTANTS
  Events = {v1, v2}
  Endpoints = {e1}
  EndpointConfigs <- OneName
  DeliveryIds = {d1, d2}
  Tokens = {t1, t2, t3}
  Workers = {w1, w2}
  NoToken = NoToken
  NoEndpoint = NoEndpoint
  LeaseMs = 2
  BaseRetryDelayMs = 1
  MaxRetryDelayMs = 2
  StoreLimit = 1
  DispatchLimit = 2
  Concurrency = 2
  MaxLag = 1
  Horizon = 1
  CounterCap = 3
SYMMETRY Symmetry
INVARIANTS
  TypeOK
  UnfinishedHasEndpoint
  CircuitHasEndpoint
  RetryHasBudget
PROPERTIES
  SucceededIsFinal
  OnlyFinishedRemoved
  LiveLeaseKept
