\* Three threads dispatch one alert at once, and the process may restart twice.
CONSTANTS
  alert1 = alert1
  local = local
  t1 = t1
  t2 = t2
  t3 = t3
  NoKey = NoKey
  Alerts <- OneAlert
  Channels <- OneChannel
  Threads <- ThreeThreads
  MaxAttempts = 2
  MaxRestarts = 2
SPECIFICATION FairSpec
INVARIANTS LogTellsHistory ExhaustedIsSettled DeliveriesBounded
PROPERTIES SettledIsFinal ReservationsAnswered
