\* The documented meaning of the pending flag.
CONSTANTS
  Models <- MCModels
  Elements <- MCElements
  Functions = {"approver"}
  Nobody = Nobody
  Unparsable = Unparsable
  Ancestries <- DirectOnly
  Ordinals = {1}
  Symbols = {"draft"}
  Requirements <- MCRequirements
  RetentionN = 2
  MaxElements = 1
  MaxElems = 1
  MaxRequired = 1
SPECIFICATION Spec
INVARIANT PendingIsNotCompleted
CHECK_DEADLOCK FALSE
