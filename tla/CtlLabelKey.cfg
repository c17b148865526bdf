CONSTANTS
  Kinds = {"webhook"}
  Templates = {t1}
  Exclusions = {e1}
  LabelKeys = {k1, k2}
  Orders = {o1}
  Resyncs = TRUE
  Upgraded = FALSE
  MaxEdits = 1
  MaxFaults = 0
  None = None
SPECIFICATION Spec
CHECK_DEADLOCK FALSE
PROPERTIES
  WebhookFollowsLabelKey
