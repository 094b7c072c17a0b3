SPECIFICATION Spec
CONSTANTS
  Bridges <- AllBridges
  Tools <- MCTools
  Params <- MCParams
  Nameless = FALSE
  MaxSaid = 6
CHECK_DEADLOCK FALSE
INVARIANT ReportedIsCounted
