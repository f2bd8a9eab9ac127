CONSTANTS
  c1 = c1
  zero = zero
  p0 = p0
  p1 = p1
  x5 = x5
  w1 = w1
  b1 = b1
  b2 = b2
  Uninit = Uninit
  DefaultKey = DefaultKey
  Loadable <- MCLoadable
  ZeroDc <- MCZeroDc
  Sec = {p0, p1}
  Pub = {x5}
  Words = {w1}
  Brands = {b1, b2}
  Sites = {0}
  Ops = {"sub"}
  GrantedTerms <- MCGrantedTerms
  OwnerTerms <- MCOwnerTerms
  MaxOps = 1
SPECIFICATION DiscSpec
INVARIANTS DisclosuresAreGranted GrantsAreMarked
