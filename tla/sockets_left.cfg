SPECIFICATION FairSpec
CONSTANTS
  Socket = {k1}
  Caller = {c1}
  Ranger = {x1}
  Callback = cb
PROPERTIES ShutdownClosesAll
