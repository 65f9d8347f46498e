SPECIFICATION Spec
CONSTANTS
  LDs = {1, 2}
  Names <- MCNames
  Devices <- MCDevices
  Limit = 2
  Result <- WalkResult
CHECK_DEADLOCK FALSE
INVARIANTS NothingLeft ResultComplete
PROPERTIES CallEnds
