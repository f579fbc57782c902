CONSTANTS
  u1 = u1
  u2 = u2
  e1 = e1
  e2 = e2
  w1 = w1
  w2 = w2
  Challenge = Challenge
  Urls <- OneUrl
  Owner <- OneOwner
  Events = {e1}
  Origin <- Itself
  Workers = {w1, w2}
  MaxPerAccount = 1
  MaxExpiredPerAccount = 2
  MaxDeliveriesHour = 1
  MaxFanout = 2
  MaxAttempts = 2
  DisableFailures = 2
  PendingTTL = 2
  BaseBackoff = 1
  MaxBackoff = 2
  Lease = 3
  ClaimTime = 0
  RequestTime = 1
  SettleTime = 1
  MaxGens = 2
  MaxLost = 1
SPECIFICATION LiveSpec
INVARIANTS OneSender AcknowledgedOnce ConsentFirst QueueFits
PROPERTIES NoneLost QueueDrains
CHECK_DEADLOCK FALSE
