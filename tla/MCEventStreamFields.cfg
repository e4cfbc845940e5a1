CONSTANTS
  MaxEvents = 1
  MaxDue = 1
  Room = 1
  Characters <- Letters
  Programs <- OneLine
SPECIFICATION SourceSpec
INVARIANT FieldsReachTheListener
