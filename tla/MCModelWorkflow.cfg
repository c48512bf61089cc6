\* Every model of three components: cycles, shared parts, undefined names.
CONSTANTS
  c1 = c1
  c2 = c2
  c3 = c3
  Components = {c1, c2, c3}
  Undefined = Undefined
  Generic = Generic
  NotExtracted = NotExtracted
  Starts = {c1, Generic}
  Kinds <- MostKinds
  MaxRefs = 2
SPECIFICATION Spec
INVARIANTS
  TypeOK
  FindsTheReachable
  OnlyTheWorkflow
PROPERTY WalkEnds
CHECK_DEADLOCK FALSE
