CONSTANTS
  Routers = {root, a, b}
  Root = root
  Middlewares = {m1, m2, m3}
  Paths = {p, q}
  Handlers <- ThreeHandlers
  Tables <- SmallTables
  MaxRoutes = 2
SYMMETRY Symmetry
SPECIFICATION Spec
INVARIANTS
  TypeOK
  ChainIsOnion
  EveryRouteIsServed
  LastRegistrationWins
  AllowIsTruthful
