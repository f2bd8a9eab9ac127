CONSTANTS
  c1 = c1
  c2 = c2
  zero = zero
  Uninit = Uninit
  DefaultKey = DefaultKey
  Loadable <- MCLoadable
  ZeroDc <- MCZeroDc
  Sec = {p0}
  Zeroed = {p0}
  Locs = {0, 1}
  Ids = {v1, v2}
  Zero = Zero
  Junk = Junk
  Plaintext = Plaintext
  NoLabel = NoLabel
  OpLabel = OpLabel
  MaxPackets = 2
SYMMETRY HashSymmetry
SPECIFICATION PacketSpec
INVARIANTS LabelsDescribeValues  SecretsStayWithOwner
