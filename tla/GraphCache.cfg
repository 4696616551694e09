\* Two requests at a time, and two feeds registered while they run.
CONSTANTS
  t1 = t1
  t2 = t2
  feedA = feedA
  feedB = feedB
  train = train
  NoTrip = NoTrip
  NoFeed = NoFeed
  Threads <- TwoThreads
  Feeds <- TwoFeeds
  Trips <- TrainOnly
  Asks <- AsksA
  MaxRegistrations = 2
SPECIFICATION FairSpec
PROPERTIES SoloRouteFresh Settles
