CONSTANTS
  Kinds = {"deployment"}
  Templates = {t1}
  Exclusions = {e1}
  LabelKeys = {k1}
  Orders = {o1}
  Resyncs = TRUE
  Upgraded = TRUE
  MaxEdits = 2
  MaxFaults = 0
  None = None
SPECIFICATION Spec
CHECK_DEADLOCK FALSE
PROPERTIES
  LegacyClassDeleted
