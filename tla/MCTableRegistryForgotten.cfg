\* One server, one version, a save that fails and a restart.
CONSTANTS
  Processes = {server}
  Keys <- OneKey
  Tables = {table, changed}
  Parts <- MCParts
  Number <- MCNumber
  NotDigits = NotDigits
  TextRank <- MCTextRank
  FileRank <- MCFileRank
  NoFile = NoFile
  Torn = Torn
  Nothing = Nothing
  MaxCalls = 2
  MaxReceipts = 2
  MaxCrashes = 1
  MaxFaults = 1
SYMMETRY TableSymmetry
SPECIFICATION Spec
INVARIANTS
  VersionMeansOneThing
CHECK_DEADLOCK FALSE
