SPECIFICATION Spec
CONSTANTS
  Rows = {r1, r2}
  Drafts = {d1}
  Workers = {w1}
  Captures = {c1}
  NoRow = NoRow
  NoCapture = NoCapture
  MaxNumber = 3
  Doors = {"issue", "reissue", "revise", "send", "view", "sign", "accept", "unaccept", "void", "lost", "reopen", "archive", "unarchive", "compete", "sweep", "delete", "lapse", "crash"}
SYMMETRY SymmetricRows
INVARIANTS SignedStatusKept
PROPERTIES SignatureNotErased
CHECK_DEADLOCK FALSE
