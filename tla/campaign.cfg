CONSTANTS
  e1 = e1
  e2 = e2
  w1 = w1
  w2 = w2
  NoOne = NoOne
  Addresses = {e1, e2}
  Runs = {w1, w2}
  Cap = 1
  MaxCuts = 1
  Troubles = {"lost", "refused", "limit"}
SPECIFICATION Spec
SYMMETRY Alike
INVARIANT SentReachedAll
PROPERTY UnsubscribeStands
PROPERTY RecordedNotRepeated
