CONSTANTS
  Names = {"high", "low"}
  Clients = {1, 2}
  Specs <- MCSpecs
  Unit = 2000000000
  Grain = 200000
  Tolerance = 2
  MaxRegexLen = 512
  MaxLag = 1
  MaxRevision = 4
  ListErrors = TRUE
  NoClass = NoClass
SPECIFICATION Spec
CHECK_DEADLOCK FALSE
INVARIANTS StoredClassesValid
PROPERTIES
  NewDefaultUnseen
  DefaultsEditable
  ImplementsRegistry
