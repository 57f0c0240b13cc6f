SPECIFICATION Spec
CONSTANTS
  Caller = {p1, p2}
  ID = {i1}
  Data = {d1, d2}
  TTL = 1
  MaxNow = 3
  None = None
  Idle = Idle
PROPERTY RefreshKeepsData
