SPECIFICATION Spec
CONSTANTS
  Clients = {c1, c2}
  Names = {a, b}
  MaxIno = 4
SYMMETRY Symmetric
INVARIANTS TypeOK EntriesResolve OneName LinksCovered
CHECK_DEADLOCK FALSE
