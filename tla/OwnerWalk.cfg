CONSTANTS
  rs = rs
  deployment = deployment
  custom = custom
  Self = pod
  None = None
  Names <- MCNames
  Kind <- MCKind
  Lists <- MCLists
  ImageNames <- MCImageNames
  MaxEdits = 1
  MaxFaults = 1
SPECIFICATION Spec
CHECK_DEADLOCK FALSE
INVARIANTS
  TypeOK
  AnswerOwnsPod
  NoObjectTwice
PROPERTIES
  LookupEnds
  Starts
