SPECIFICATION Spec
CONSTANTS
  Sessions = {s1, s2}
  Endpoints = {e1}
  DeliveryIds = {d1, d2}
  Events = {v1, v2}
  Tokens = {t1, t2}
  Limit = 1
  MaxAttempts = 2
  Threshold = 1
  NoToken = NoToken
  NoEndpoint = NoEndpoint
  NoSession = NoSession
  Operations = {"create", "update", "delete", "enqueue", "replay", "retry", "claim", "complete", "reconcile", "prune", "reset"}
SYMMETRY Symmetry
INVARIANTS
  UnfinishedHasEndpoint
