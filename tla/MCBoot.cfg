SPECIFICATION BootSpec
CONSTANTS
  c1 = c1
  c2 = c2
  Contracts = {c1, c2}
  Genuine = {c1, c2}
  FormatOf <- MCFormatOf
  Blank = Blank
  Junk = Junk
  Uninit = Uninit
  DefaultKey = DefaultKey
  KeyWindows = 2
  DcWindows = 3
  BlockWindows = 1
  SigBlocks = {0}
  KeyBlocks = {0, 1}
  CsigBlocks = {1}
  FmtBlocks = {2}
  PubWindows = 1
  HasSkPath = TRUE
  AddrInputs = {}
  KemLens = {1, 2, 3}
  MsgLens = {2, 3, 4}
  MaxResets = 1
  MaxRuns = 2
INVARIANTS
  DriverNeverSurprised
  ReadyMeansOwnContract
PROPERTIES
  DriverTerminates
CHECK_DEADLOCK TRUE
