SPECIFICATION Spec
CONSTANTS
  p1 = p1
  p2 = p2
  Account = {a1}
  Password = {1, 2}
  Process = {p1, p2}
  Config <- MCDefault
  DefaultConfig <- MCDefault
  Salts <- MCSalts
  Key <- MCKey
SYMMETRY ProcessSymmetry
INVARIANTS TypeOK StoredDecodes CutDataIsRefused
PROPERTIES AcceptsCurrentOnly ChangeNeedsPassword
