SPECIFICATION Spec
CONSTANTS
  e1 = e1
  Nobody = Nobody
  Other = Other
  Captures = {1, 2}
  Of <- SameEstimate
  Troubles = {{"drop", "slow"}, {"drop", "kill", "cut", "other", "close"}, {"drop", "busy", "auth", "close"}}
  MaxLate = 2
INVARIANTS LeavesTrace OneFollowUp CancelledUnrecorded
PROPERTIES Promise TriedBeforeTold
