\* A slow commute overlaps a registration; a later one is answered alone.
CONSTANTS
  t1 = t1
  t2 = t2
  feedA = feedA
  feedB = feedB
  train = train
  NoTrip = NoTrip
  NoFeed = NoFeed
  Threads <- TwoThreads
  Feeds <- TwoFeeds
  Trips <- TrainOnly
  Asks <- AsksA
  MaxRegistrations = 2
SPECIFICATION Spec
PROPERTY SoloAnswerFresh
