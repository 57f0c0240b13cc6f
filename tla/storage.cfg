SPECIFICATION Spec
CONSTANTS
  Caller = {p1, p2}
  ID = {i1, i2}
  Data = {d1, d2}
  TTL = 1
  MaxNow = 2
  None = None
  Idle = Idle
SYMMETRY Symmetry
INVARIANT TypeOK
PROPERTY ImplementsStorage
