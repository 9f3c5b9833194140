SPECIFICATION Spec
CONSTANTS
  Rows = {r1, r2}
  Drafts = {d1}
  Workers = {w1, w2}
  Captures = {c1}
  NoRow = NoRow
  NoCapture = NoCapture
  MaxNumber = 3
  Doors = {"issue", "reissue", "revise", "sign", "accept", "unaccept", "lost", "void", "send", "compete", "delete"}
SYMMETRY Symmetric
INVARIANTS  ArchivedUnsigned
PROPERTIES SignatureLandsOnOpenOffer SignOnce IssueSparesSigned
CHECK_DEADLOCK FALSE
