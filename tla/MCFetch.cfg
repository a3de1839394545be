CONSTANTS
  f1 = f1
  f2 = f2
  pre = pre
  up = up
  mir = mir
  Fetcher = {f1, f2}
  Source = {pre, up, mir}
  Bytes <- BadPremirror
  Mixed = "mixed"
  Premirrors <- Pre
  Upstream = up
  Mirrors <- Mir
  Expected <- OneExpects
  MayClean = {f1}
  Torn = Torn
  None = None
SPECIFICATION Spec
INVARIANTS FetchVerified OtherSourcesTried
PROPERTIES FetchEnds
