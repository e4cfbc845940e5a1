CONSTANTS
  Conns = {c1, c2}
  NoLimit = NoLimit
  Configs <- OneAtATime
SPECIFICATION FairSpec
PROPERTY ShutdownObserved
