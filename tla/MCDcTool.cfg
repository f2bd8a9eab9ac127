SPECIFICATION ToolSpec
CONSTANTS
  c1 = c1
  c2 = c2
  Jobs = {j1, j2}
  KeyPairs = {k1, k2}
  Contracts = {c1, c2}
  FormatOf <- MCFormatOf
  Blank = Blank
  Junk = Junk
  Torn = Torn
  Nobody = Nobody
  KeyWindows = 1
  DcWindows = 2
  BlockWindows = 1
  SigBlocks = {0}
  KeyBlocks = {0, 1}
  CsigBlocks = {1}
  FmtBlocks = {1}
  ArgInputs = {{"sk", "pk", "dc"}, {"sk", "pk", "dc", "fast", "strong"}, {"sk", "dc"}, {"sk", "pk"}, {}}
SYMMETRY ToolSymmetry
INVARIANTS
  InstalledIsWhole
  CheckAgreesWithSpike
  FormatsAgree
CHECK_DEADLOCK TRUE
