SPECIFICATION Spec
CONSTANTS
  Inputs <- ArrayModels
  DoTypes <- ObjectTypes
  DaTypes <- AttributeTypes
  Digits <- IndexNames
  PrefixFits = TRUE
INVARIANTS RefsDeclared
