SPECIFICATION Spec
CONSTANTS
  Lines = {l1}
  Values = {a, b}
  MaxEdits = 2
  MaxOffice = 1
  None = None
SYMMETRY Symmetric
INVARIANTS SentInOrder   
 
CHECK_DEADLOCK FALSE
