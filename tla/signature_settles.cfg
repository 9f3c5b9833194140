SPECIFICATION RestartedSpec
CONSTANTS
  e1 = e1
  Nobody = Nobody
  Other = Other
  Captures = {1, 2}
  Of <- SameEstimate
  Troubles = {{"drop", "busy", "unassign"}}
  MaxLate = 0
PROPERTIES Settles
