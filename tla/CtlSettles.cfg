CONSTANTS
  Kinds = {"deployment", "service"}
  Templates = {t1, t2}
  Exclusions = {e1}
  LabelKeys = {k1, k2}
  Orders = {o1, o2}
  Resyncs = FALSE
  Upgraded = TRUE
  MaxEdits = 1
  MaxFaults = 1
  None = None
SPECIFICATION MCSpecRandom
CHECK_DEADLOCK FALSE
PROPERTIES
  StaysSettled
  Settles
