SPECIFICATION Spec
CONSTANTS
  Client = {c1}
  Req = {r1}
  Key = {k1, k2}
  ID = {i1, i2}
  NoID = NoID
  Nil = Nil
  Absent = Absent
  NoData = NoData
  NoCookie = NoCookie
  NoSession = NoSession
  NoClient = NoClient
  NoResponse = NoResponse
  Delivered = Delivered
  Faults = {"set", "del", "refresh", "encode"}
  HasStorage = TRUE
  TTLSeconds = 1
  Status = {200, 404}
  Serial = TRUE
  Env = {"forget", "lose"}
SYMMETRY Symmetry
INVARIANT TypeOK
PROPERTIES ReadYourWrites ClearSessionRemovesData PanicBecomesError
