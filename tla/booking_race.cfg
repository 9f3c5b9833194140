SPECIFICATION Spec
CONSTANTS
  d1 = d1
  d2 = d2
  None = None
  Jobs = {A, B}
  Days = {d1, d2}
  Blocks <- BlocksOf
  Events = {e1, e2}
  Techs = {t1}
  Workers = {w1, w2}
  Doors = {"schedule", "override", "agent_reschedule", "cancel", "ride"}
SYMMETRY Symmetric
INVARIANTS OneWinsTheDay TechsApart
CHECK_DEADLOCK FALSE
