CONSTANTS
  Readers = {r1}
  Sizes <- SmallSizes
  Limits <- NoLimits
  DefaultLimit = 2
  NoCache = NoCache
SPECIFICATION Spec
INVARIANT BufferedReadsAgree
