\* Packs of two fields, changed up to twice on the way.
CONSTANTS
  Packs <- MCPacks
  Values <- MCValues
  MaxChanges = 2
SPECIFICATION PackSpec
INVARIANTS
  ValidPackHasTheIssuedValues
  RelayedPackVerifies
  LegacyIsReportedOfLegacy
CHECK_DEADLOCK FALSE
