CONSTANTS
  Kinds = {"podDeployment", "podWebhook"}
  Metas <- EmptyMap
  Tolerations <- TwoLists
  LabelKeys = {k1}
  Images = {v1, v2}
  MaxAttempts = 2
  MaxChanges = 2
  None = None
  Nil = Nil
SPECIFICATION Spec
CHECK_DEADLOCK FALSE
INVARIANTS
  TypeOK
  NoLostEdit
  NoLostWakeup
  BackedWebhooks
PROPERTIES
  ImplementsReconciler
  Converges
  StaysSettled
  Settles
