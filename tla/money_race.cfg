SPECIFICATION RailsSpec
CONSTANTS
  Fees = {f1, f2}
  Payments = {p1, p2, p3}
  Workers = {w1, w2}
  Amounts = {1}
  FirstBill = 3
  MaxBill = 4
  MaxRoot = 1
  HalfRate = 50
  NoFee = NoFee
SYMMETRY Symmetric
INVARIANTS RailsTypeOK OneLiveFee FeeLocks 
CHECK_DEADLOCK FALSE
