\* Instances of two elements, in or out of the namespace, and a state, and two more requirements.
CONSTANTS
  Models <- MCModels
  Elements <- MCElements
  Functions = {"approver"}
  Nobody = Nobody
  Unparsable = Unparsable
  Ancestries <- DirectOnly
  Ordinals = {1}
  Symbols = {"draft"}
  Requirements <- MCRequirements
  RetentionN = 2
  MaxElements = 2
  MaxElems = 1
  MaxRequired = 2
SPECIFICATION Spec
INVARIANTS
  RolesAreNotBorrowed
  ContentIsGoverned
PROPERTIES
  MoreRequiredNeverAccepts
  MoreEvidenceNeverRefuses
CHECK_DEADLOCK FALSE
