\* Two crawls and an import, each submitted once, compete for the only slot of a domain.
CONSTANTS
  crawl1 = crawl1
  crawl2 = crawl2
  import = import
  site = site
  source = source
  w1 = w1
  w2 = w2
  NoJob = NoJob
  NoDomain = NoDomain
  Tasks <- CrawlsAndImport
  Sources <- MCSources
  Domains <- MCDomains
  Workers <- TwoWorkers
  SourceOf <- AllSameSource
  DomainOf <- AllSameDomain
  TypeOf <- MCTypeOf
  Limits <- Serial
  Malformed = {import}
  MaxAttempts = 2
  MaxSubmits = 1
  SubmitDelays <- Now
SPECIFICATION FairSpec
INVARIANTS StatusTruthful AuditTellsHistory
PROPERTIES LifecycleKept EventuallySettled
