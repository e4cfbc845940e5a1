CONSTANTS
  Apps <- Plain
  Requests <- PageOnly
  Failures <- Unreadable
  Codes = {}
  Statuses = {}
SPECIFICATION UpgradeSpec
INVARIANT SanitizedErrorIsLogged
