\* Two spellings of the schema path; writes, publications and restarts at any point.
CONSTANTS
  Unparsable = Unparsable
  NoFile = NoFile
  NoWorkflow = NoWorkflow
  NotInspected = NotInspected
  NoRequest = NoRequest
  SchemaPaths = {path, otherPath}
  Documents <- MCDocuments
  Targets = {"review", "rejected"}
  MaxEvaluations = 3
  MaxChanges = 2
SYMMETRY PathSymmetry
SPECIFICATION Spec
INVARIANTS
  TypeOK
  DecisionsAreDocumented
  AnswersAreTheChain
  ReplaysWithinEngine
PROPERTY
  ImplementsService
CHECK_DEADLOCK FALSE
