SPECIFICATION Spec
CONSTANTS
  Inputs <- SettingModels
  DoTypes <- ObjectTypes
  DaTypes <- AttributeTypes
  Digits <- IndexNames
  PrefixFits = TRUE
INVARIANTS UniqueNames PlainRefsDeclared TreeComplete EditPairs
