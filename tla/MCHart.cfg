CONSTANTS
  k1 = k1
  zero = zero
  Uninit = Uninit
  DefaultKey = DefaultKey
  Loadable <- MCLoadable
  ZeroDc <- MCZeroDc
  IntRegs = {x1, p0, p1}
  IntSec = {p0, p1}
  FpRegs = {f1, fp0, fp1}
  FpSec = {fp0, fp1}
  FpZeroed = {fp0}
  MemCells = {mem}
  CsrCells = {fflags}
  FFLAGS = fflags
SPECIFICATION HartSpec
INVARIANTS LeaksOnlyByResidue GrantsAreSecret
