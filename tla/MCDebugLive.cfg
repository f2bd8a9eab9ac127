SPECIFICATION DebugSpec
CONSTANTS
  NHarts = 2
  Groups = {0, 1}
  AbstractRti = 1
  RequireAuth = FALSE
  ControlInputs <- RunControl
  AvailInputs = {}
  MaskInputs = {}
  AutoInputs = {}
  MaxResets = 0
  Polite = TRUE
PROPERTIES
  RequestsHalt
  CommandsEnd
  ResumesAcknowledged
CHECK_DEADLOCK TRUE
