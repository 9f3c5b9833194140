SPECIFICATION FairSpec
CONSTANTS
  d1 = d1
  d2 = d2
  None = None
  Jobs = {A}
  Days = {d1, d2}
  Blocks <- BlocksOf
  Events = {e1}
  Techs = {t1}
  Workers = {w1, w2}
  Doors = {"schedule", "crm_reschedule", "crash"}
PROPERTIES DayComesBack
CHECK_DEADLOCK FALSE
