\* Two runs, each on up to four of five observations in any order, the two of one
\* listing in the order of time.
CONSTANTS
  elm = elm
  oak = oak
  words = words
  NotANumber = words
  Inputs <- MCInputs
  Overrides <- MCOverrides
  AutoMerge = 17
  Review = 12
  PriceTolerance = 2
  MaxRuns = 2
SPECIFICATION Spec
INVARIANTS TypeOK ClustersAreComponents EveryPairDecided ClustersOnlyGrow
PROPERTY MergesAsSpecified
CHECK_DEADLOCK FALSE
