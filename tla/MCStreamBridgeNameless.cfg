SPECIFICATION Spec
CONSTANTS
  Bridges <- AllBridges
  Tools <- MCTools
  Params <- MCParams
  Nameless = TRUE
  MaxSaid = 6
CHECK_DEADLOCK FALSE
PROPERTY MessageWellFormed
