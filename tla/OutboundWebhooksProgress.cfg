SPECIFICATION FairSpec
CONSTANTS
  Events = {v1}
  Endpoints = {e1}
  EndpointConfigs <- OneFuse
  DeliveryIds = {d1, d2}
  Tokens = {t1, t2}
  Workers = {w1, w2}
  NoToken = NoToken
  NoEndpoint = NoEndpoint
  LeaseMs = 1
  BaseRetryDelayMs = 1
  MaxRetryDelayMs = 2
  StoreLimit = 2
  DispatchLimit = 1
  Concurrency = 1
  MaxLag = 0
  Horizon = 0
  CounterCap = 3
INVARIANTS
  Deduplicated

  
