SPECIFICATION Spec
CONSTANTS
  Obj = {o1, o2}
  Req = {r1, r2, r3}
SYMMETRY Symmetry
INVARIANTS TypeOK FieldsBelongToRequest
