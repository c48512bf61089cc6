\* The documented binding of a receipt to the instance it was issued for.
CONSTANTS
  Unparsable = Unparsable
  NoFile = NoFile
  NoWorkflow = NoWorkflow
  NotInspected = NotInspected
  NoRequest = NoRequest
  SchemaPaths = {path}
  Documents <- MCDocuments
  Targets = {"review", "rejected"}
  MaxEvaluations = 1
  MaxChanges = 1
SPECIFICATION Spec
INVARIANT ReceiptNamesEvaluatedDocument
CHECK_DEADLOCK FALSE
