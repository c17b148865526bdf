CONSTANTS
  A = A
  B = B
  n1 = n1
  k1 = k1
  k2 = k2
  app = app
  setup = setup
  cpu = cpu
  memory = memory
  NoName = NoName
  NoClass = NoClass
  NoHook = NoHook
  NoPod = NoPod
  Absent = Absent
  Names = {A, B}
  Namespaces = {n1}
  Keys = {k1}
  Containers = {app}
  InitContainers = {setup}
  Resources = {cpu, memory}
  Unit = 10000
  Specs <- MCSpecs
  Templates <- MCTemplates
  Resizes <- MCResizes
  RoundsDown <- MCRoundsDown
  OperatorNamespaces = {}
  ReadErrors = TRUE
  MaxEdits = 1
  MaxWrites = 1
SPECIFICATION Spec
CHECK_DEADLOCK FALSE
INVARIANTS
  TypeOK
  RequestsWithinLimits
  AnnotationExplainsRequests
  CalmOutcome
PROPERTIES
  StoredInitContainersStable
