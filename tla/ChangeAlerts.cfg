\* One spec and two threads that create at most one alert a run.
CONSTANTS
  l1 = l1
  price = price
  low = low
  high = high
  s1 = s1
  r1 = r1
  r2 = r2
  NoFact = NoFact
  NoValue = NoValue
  NoSpec = NoSpec
  NoChange = NoChange
  FactIds <- ThreeFacts
  Fields <- OneField
  Values <- TwoValues
  FactOf <- MCFactOf
  Listings <- OneListing
  Batches <- MCBatches
  Specs <- OneSpec
  Runners <- TwoRunners
  Sinces <- Since02
  AlertLimit = 1
SPECIFICATION FairSpec
INVARIANTS AlertsVetted
PROPERTIES ChangesKept TransitionsLogged TrustNeverLost NothingStarved
