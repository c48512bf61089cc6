\* Two servers on one directory, three versions, two with one file name, one crash, one fault.
CONSTANTS
  Processes = {first, second}
  Keys <- MCKeys
  Tables = {table, changed}
  Parts <- MCParts
  Number <- MCNumber
  NotDigits = NotDigits
  TextRank <- MCTextRank
  FileRank <- MCFileRank
  NoFile = NoFile
  Torn = Torn
  Nothing = Nothing
  MaxCalls = 3
  MaxReceipts = 1
  MaxCrashes = 1
  MaxFaults = 1
SYMMETRY TableSymmetry
SPECIFICATION Spec
INVARIANTS
  TypeOK
  ReceiptsResolve
  ServedTablesWereRegistered
  AcknowledgedIsServed
  SupersededIsNotApplied
CHECK_DEADLOCK FALSE
