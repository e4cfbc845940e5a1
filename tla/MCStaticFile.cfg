CONSTANTS
  Configs <- SmallConfigs
  Requests <- SmallRequests
  Lengths <- SmallLengths
  PerSecond = 2
  MaxTime = 3
SPECIFICATION Spec
INVARIANTS
  TypeOK
  NotModifiedIsTrue
  RangeIsAnsweredAsAsked
  BodyMatchesHeaders
