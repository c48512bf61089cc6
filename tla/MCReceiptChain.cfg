\* Up to three receipts of two calls; holders assign to their fields meanwhile.
CONSTANTS
  Calls <- MCCalls
  Assignments <- MCAssignments
  MaxReceipts = 3
  MaxAssigns = 2
SPECIFICATION Spec
INVARIANTS
  TypeOK
  UnalteredVerifies
  SingleAlterationDetected
  ExportedHeadFixesPrefix
  HashesUnique
