SPECIFICATION Spec
CONSTANTS
  Request = {r1, r2}
  t1 = t1
  t2 = t2
  Targets <- TwoTargets
  ViaCodex = {t1}
  UsesPreferred = TRUE
  Statuses = {200, 400, 429}
  BaseCooldown = 1
  MaxCooldown = 2
  QuotaCooldown = 3
  RetryAfters = {0, 4}
  MaxTime = 1
  MaxFaults = 2
  Proxy = Proxy
INVARIANT FailedAttemptDiscarded
