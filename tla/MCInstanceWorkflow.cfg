\* Up to four state elements, in any order and nesting, and no other content.
CONSTANTS
  Models <- WorkflowOnly
  Elements = {}
  Functions = {"approver"}
  Nobody = Nobody
  Unparsable = Unparsable
  Ancestries <- Nestings
  Ordinals <- OrdinalTexts
  Symbols = {"draft", "review"}
  Requirements = {{}}
  RetentionN = 2
  MaxElements = 0
  MaxElems = 4
  MaxRequired = 0
SPECIFICATION Spec
INVARIANTS
  AllowedIsAdjacent
  AdaptersAndBadStatesIgnored
CHECK_DEADLOCK FALSE
