SPECIFICATION DebugSpec
CONSTANTS
  NHarts = 2
  Groups = {0}
  AbstractRti = 0
  RequireAuth = FALSE
  ControlInputs <- Session
  AvailInputs = {{1}}
  MaskInputs = {{0, 1}}
  AutoInputs = {{"data", "progbuf"}}
  MaxResets = 1
  Polite = TRUE
INVARIANTS
  HaltedMeansParked
  IdleMeansDone
  StatusIsTrue
CHECK_DEADLOCK TRUE
