SPECIFICATION Spec
CONSTANTS
  p1 = p1
  p2 = p2
  Account = {a1}
  Password = {1, 2}
  Process = {p1, p2}
  Config <- MCOther
  DefaultConfig <- MCDefault
  Salts <- MCSalts
  Key <- MCKey
SYMMETRY ProcessSymmetry
INVARIANT StoredVerifies
