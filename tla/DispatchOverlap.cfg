\* At most one dispatch per key, with two threads.
CONSTANTS
  alert1 = alert1
  local = local
  t1 = t1
  t2 = t2
  t3 = t3
  NoKey = NoKey
  Alerts <- OneAlert
  Channels <- OneChannel
  Threads <- TwoThreads
  MaxAttempts = 2
  MaxRestarts = 0
SPECIFICATION Spec
INVARIANT AtMostOneDelivery
