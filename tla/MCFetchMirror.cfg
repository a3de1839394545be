CONSTANTS
  f1 = f1
  f2 = f2
  pre = pre
  up = up
  mir = mir
  Fetcher = {f1, f2}
  Source = {pre, up, mir}
  Bytes <- BadUpstream
  Mixed = "mixed"
  Premirrors <- Nowhere
  Upstream = up
  Mirrors <- Mir
  Expected <- AllExpect
  MayClean = {f1}
  Torn = Torn
  None = None
SPECIFICATION Spec
INVARIANTS OtherSourcesTried
