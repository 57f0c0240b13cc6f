SPECIFICATION Spec
CONSTANTS
  Client = {c1, c2}
  Req = {r1, r2}
  Key = {k1}
  ID = {i1}
  NoID = NoID
  Nil = Nil
  Absent = Absent
  NoData = NoData
  NoCookie = NoCookie
  NoSession = NoSession
  NoClient = NoClient
  NoResponse = NoResponse
  Delivered = Delivered
  Faults = {"uuid", "get"}
  HasStorage = TRUE
  TTLSeconds = 1
  Status = {}
  Serial = FALSE
  Env = {"expire"}
SYMMETRY Symmetry
INVARIANTS Isolation OneHolder
