CONSTANTS
  Client = {c1, c2}
  Server = {s1, s2}
  NoServer = none
  Leftover = left
  Proc = {c1, c2, s1, s2, left}
  NoProc = nobody
  Inode = {i1, i2, i3, i4}
  NoInode = noinode
  Retries = 2
  Patience = 2
  MaxKills = 1
SPECIFICATION Spec
INVARIANTS OneServer Reachable
PROPERTIES ClientsEnd
CHECK_DEADLOCK FALSE
