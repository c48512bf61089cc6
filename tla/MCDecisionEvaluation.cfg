\* Up to three rules, then up to two more facts, in any order.
CONSTANTS
  PartOf <- MCPartOf
  Rules <- MCRules
  Instances <- MCInstances
  Supplied <- MCSupplied
  MaxRules = 3
  MaxExtra = 2
SPECIFICATION Spec
CHECK_DEADLOCK FALSE
INVARIANTS
  DimensionsReproduceDecision
  RuleOrderIsIrrelevant
PROPERTIES
  NewRuleRespectsPolicy
  NewFactKeepsMatches
