CONSTANTS
  Conns = {c1, c2, c3}
  NoLimit = NoLimit
  Configs <- AllConfigs
SPECIFICATION FairSpec
INVARIANTS
  TypeOK
  PermitsAccountForTasks
  DrainedMeansNoTask
  AcceptedIsNotAbandoned
PROPERTIES
  ImplementsGate
  ShutdownCompletesWhenPermitsReturn
