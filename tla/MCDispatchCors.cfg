CONSTANTS
  Apps <- InnermostCors
  Requests <- PageOnly
  Failures <- Missing
  Codes = {}
  Statuses = {}
SPECIFICATION UpgradeSpec
INVARIANT CorsOnEveryResponse
