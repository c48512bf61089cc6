\* One table version, two contents; a restart, a line of any other kind.
CONSTANTS
  Keys = {key}
  Tables = {table, changed}
  OtherLines <- MCOtherLines
  Null = Null
  BadId = BadId
  NotText = NotText
  MaxRequests = 3
  MaxOthers = 1
  MaxRestarts = 1
SPECIFICATION Spec
INVARIANTS
  TypeOK
  RepliesInOrder
  ClientChainVerifies
  OneAnswerPerRegistration
PROPERTY
  RequestsAreAnswered
CHECK_DEADLOCK FALSE
