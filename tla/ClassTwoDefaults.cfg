CONSTANTS
  Names = {"high", "low", "test"}
  Clients = {1}
  Specs <- Valid
  Unit = 2000000000
  Grain = 200000
  Tolerance = 2
  MaxRegexLen = 512
  MaxLag = 1
  MaxRevision = 4
  ListErrors = FALSE
  NoClass = NoClass
SPECIFICATION Spec
CHECK_DEADLOCK FALSE
INVARIANTS AtMostOneDefault
