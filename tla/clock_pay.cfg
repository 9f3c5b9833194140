SPECIFICATION Spec
CONSTANTS
  Shifts = {s1, s2}
  Sessions = {j1, j2}
  Visits = {v1, v2}
  Horizon = 4
  Runaway = 1
  MaxTyped = 1
  None = None
  Week = 3
  Regular = 2
SYMMETRY Symmetric
INVARIANTS TypeOK   
CHECK_DEADLOCK FALSE
