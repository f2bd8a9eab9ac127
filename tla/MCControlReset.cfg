SPECIFICATION Spec
CONSTANTS
  c1 = c1
  c2 = c2
  Contracts = {c1, c2}
  Genuine = {c1, c2}
  FormatOf <- MCFormatOf
  Blank = Blank
  Junk = Junk
  Uninit = Uninit
  DefaultKey = DefaultKey
  KeyWindows = 2
  DcWindows = 2
  BlockWindows = 1
  SigBlocks = {0}
  KeyBlocks = {1}
  CsigBlocks = {1}
  FmtBlocks = {1}
  PubWindows = 1
  HasSkPath = TRUE
  AddrInputs = {8, 12, 32, 40}
INVARIANT
  NoContractOpenedInSecretMode
