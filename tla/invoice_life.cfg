SPECIFICATION Spec
CONSTANTS
  Docs = {r1, r2, r3}
  Drafts = {d1, d2, d3}
  Jobs = {j1}
  Payments = {p1}
  Workers = {w1}
  NoDoc = NoDoc
  NoDraft = NoDraft
  NoJob = NoJob
  Doors = {"pay", "terms", "crash"}
SYMMETRY Symmetric
INVARIANTS OneLiveInvoice  ContractedFigure 
CHECK_DEADLOCK FALSE
