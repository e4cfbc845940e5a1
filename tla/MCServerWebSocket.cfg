CONSTANTS
  Conns = {c1, c2}
  NoLimit = NoLimit
  Configs <- OneAtATime
SPECIFICATION Spec
INVARIANT NothingOpenWhenStopped
