SPECIFICATION FairSpec
CONSTANTS
  Socket = {k1, k2}
  Caller = {c1}
  Ranger = {x1}
  Callback = cb
INVARIANTS TypeOK RegisteredIsServed RangedIsRegistered CallbackClosesRegistered HandlersMatch UserIsTold
PROPERTIES ClosedLeaves
