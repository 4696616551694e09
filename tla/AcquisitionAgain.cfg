\* A crawl submitted twice under one id, while two workers may both take it.
CONSTANTS
  crawl1 = crawl1
  crawl2 = crawl2
  import = import
  site = site
  source = source
  w1 = w1
  w2 = w2
  NoJob = NoJob
  NoDomain = NoDomain
  Tasks <- OneCrawl
  Sources <- MCSources
  Domains <- MCDomains
  Workers <- TwoWorkers
  SourceOf <- AllSameSource
  DomainOf <- AllSameDomain
  TypeOf <- MCTypeOf
  Limits <- Wide
  Malformed = {crawl1}
  MaxAttempts = 2
  MaxSubmits = 2
  SubmitDelays <- NowOrLater
SPECIFICATION Spec
INVARIANTS NoTaskLost AttemptsAudited
PROPERTIES AttemptNeedsPolicy LimiterUsedAsSpecified
