CONSTANTS
  Apps <- SmallApps
  Requests <- SmallRequests
  Failures <- SmallFailures
  Codes <- SmallCodes
  Statuses <- SmallStatuses
SPECIFICATION UpgradeFairSpec
INVARIANTS
  TypeOK
  CookiesReachTheReply
  EncodedAsDeclared
  ErrorsAreSanitizedEnvelopes
  CorsCoversInnerMiddleware
  PreflightStopsAtCors
  EveryGuardPassed
  LoggerTellsTheTruth
  SwitchHasItsTask
  OneUpgrade
PROPERTIES
  TimeoutBoundsRequest
  SwitchIsServed
