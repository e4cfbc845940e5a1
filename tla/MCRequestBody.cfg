CONSTANTS
  Readers = {r1, r2}
  Sizes <- SmallSizes
  Limits <- SmallLimits
  DefaultLimit = 2
  NoCache = NoCache
SPECIFICATION Spec
INVARIANTS
  TypeOK
  SingleConsumer
  LimitIsExact
  SuccessMeansWholeBody
  CacheIsWholeBody
PROPERTY ImplementsOnceBody
