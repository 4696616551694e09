\* Four listings, three of which have two documents, and six specs that pass.
CONSTANTS
  mission = mission
  noe = noe
  south = south
  east = east
  feed = feed
  site = site
  office = office
  transit = transit
  car = car
  Absent = Absent
  Blank = Blank
  SchemaVersion = v1
  Threshold = 8
  Ids = {1, 2, 3, 4}
  Documents <- MCDocuments
  SpecIds = {"spec"}
  Payloads <- MCPayloads
  Spellings <- MCSpellings
  Known = {mission, noe}
  NeighborhoodAlias <- MCNeighborhoodAlias
  FeatureAlias <- MCFeatureAlias
  Underscored <- MCUnderscored
  CandidateLimit = 3
  ResultLimit = 2
  PerBuilding = 2
  PerNeighborhood = 2
  PerSource = 1
  BlockedFields = {"description"}
  MaxFields = 2
  MaxEvidence = 2
SPECIFICATION Spec
INVARIANTS HardFiltersHonoured CapsJust SpecsSettled RerankInputClean
