SPECIFICATION TransportSpec
CONSTANTS
  RequiredRti = 2
  EdgesOnly = TRUE
  LimbBase = 2
  Delay = 2
  MaxAccess = 1
  Faulty = {2}
  LimbInputs = {1}
  DataInputs = {100, 101}
  AccessInputs = {0, 1, 2}
  Polite = TRUE
INVARIANTS
  FiveOnesReset
  BusyIsShown
  AccessAsRequested
  AddressAdvances
PROPERTIES
  RequestsAreSpaced
  OverrunStopsStream
  AccessEnds
CHECK_DEADLOCK TRUE
