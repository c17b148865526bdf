CONSTANTS
  Kinds = {"deployment", "webhook"}
  Templates = {t1}
  Exclusions = {e1, e2}
  LabelKeys = {k1}
  Orders = {o1}
  Resyncs = TRUE
  Upgraded = TRUE
  MaxEdits = 2
  MaxFaults = 1
  None = None
SPECIFICATION MCSpec
CHECK_DEADLOCK FALSE
INVARIANTS
  TypeOK
  NoLostEdit
  NoLostWakeup
  AdoptedBeforeChildren
PROPERTIES
  ImplementsReconciler
  Converges
